---- MODULE Spec2Model ----
(***************************************************************************)
(* Model of the diet API core of apps/diet-api/main.py: request            *)
(* validation (TDEERequest, MealPlanRequest), the energy-target helpers,   *)
(* filter_foods, generate_meal / generate_day_plan and the two endpoints   *)
(* POST /tdee and POST /mealplan.                                          *)
(*                                                                         *)
(* Numbers are exact rationals <<n, d>> with d > 0 in lowest terms; the    *)
(* code's floats are modelled by their real-number value.  Strings the     *)
(* code lower-cases or searches for substrings are sequences of            *)
(* one-character strings; strings only compared for equality (tags, cost   *)
(* levels, messages) are TLA+ strings.                                     *)
(***************************************************************************)
EXTENDS Integers, Sequences, FiniteSets, TLC

VARIABLES
    FOODS_DB,   \* main.py:113 the loaded catalog, FOODS_DB['foods']
    rng,        \* state of the module-level random source (import random)
    pc,         \* "idle" | "responded"
    request,    \* the request (or call) last accepted
    response    \* what the caller gets back for it

vars == <<FOODS_DB, rng, pc, request, response>>

----------------------------------------------------------------------------
(* Strings as character sequences                                          *)

UpperChars ==
    <<"A","B","C","D","E","F","G","H","I","J","K","L","M",
      "N","O","P","Q","R","S","T","U","V","W","X","Y","Z">>

LowerChars ==
    <<"a","b","c","d","e","f","g","h","i","j","k","l","m",
      "n","o","p","q","r","s","t","u","v","w","x","y","z">>

\* str.lower() on one character
lower_char(c) ==
    IF \E i \in 1..26 : UpperChars[i] = c
    THEN LowerChars[CHOOSE i \in 1..26 : UpperChars[i] = c]
    ELSE c

\* str.lower()
lower(s) ==
    [i \in 1..Len(s) |-> lower_char(s[i])]

\* Python's  kw in s  for strings: kw is a contiguous substring of s
contains(s, kw) ==
    \E i \in 1..(Len(s) - Len(kw) + 1) : SubSeq(s, i, i + Len(kw) - 1) = kw

----------------------------------------------------------------------------
(* Exact rational arithmetic                                               *)

RECURSIVE GCD(_, _)
GCD(a, b) ==
    IF b = 0 THEN a
    ELSE IF a % b = 0 THEN b
    ELSE GCD(a % b, b % (a % b))

Abs(n) ==
    IF n < 0 THEN -n ELSE n

\* the rational n/d in lowest terms with a positive denominator
Rat(n, d) ==
    LET g == GCD(Abs(n), Abs(d))
    IN  IF d < 0 THEN <<(-n) \div g, (-d) \div g>> ELSE <<n \div g, d \div g>>

Int2R(n) ==
    <<n, 1>>

\* a decimal literal given in tenths: Dec(173) is 17.3
Dec(t) ==
    Rat(t, 10)

\* least common multiple of two positive integers
LCM(a, b) ==
    (a \div GCD(a, b)) * b

RAdd(a, b) ==
    LET l == LCM(a[2], b[2])
    IN  IF a[2] = b[2]
        THEN Rat(a[1] + b[1], a[2])
        ELSE Rat(a[1] * (l \div a[2]) + b[1] * (l \div b[2]), l)

RSub(a, b) ==
    LET l == LCM(a[2], b[2])
    IN  IF a[2] = b[2]
        THEN Rat(a[1] - b[1], a[2])
        ELSE Rat(a[1] * (l \div a[2]) - b[1] * (l \div b[2]), l)

RMul(a, b) ==
    LET x == Rat(a[1], b[2])
        y == Rat(b[1], a[2])
    IN  <<x[1] * y[1], x[2] * y[2]>>

\* a / b for b # 0
RDiv(a, b) ==
    RMul(a, Rat(b[2], b[1]))

RLt(a, b) ==
    LET l == LCM(a[2], b[2])
    IN  IF a[2] = b[2]
        THEN a[1] < b[1]
        ELSE a[1] * (l \div a[2]) < b[1] * (l \div b[2])

RLe(a, b) ==
    LET l == LCM(a[2], b[2])
    IN  IF a[2] = b[2]
        THEN a[1] <= b[1]
        ELSE a[1] * (l \div a[2]) <= b[1] * (l \div b[2])

RAbs(a) ==
    <<Abs(a[1]), a[2]>>

RMin(a, b) ==
    IF RLe(a, b) THEN a ELSE b

RMax(a, b) ==
    IF RLe(a, b) THEN b ELSE a

\* floor of n/d for d > 0
FloorDiv(n, d) ==
    IF n >= 0 THEN n \div d ELSE -((-n + d - 1) \div d)

\* 10^k
RECURSIVE Pow10(_)
Pow10(k) ==
    IF k = 0 THEN 1 ELSE 10 * Pow10(k - 1)

\* long division: <<floor((acc + r/d) * 10^k), remainder>> for 0 <= r < d
RECURSIVE LongDiv(_, _, _, _)
LongDiv(r, d, k, acc) ==
    IF k = 0
    THEN <<acc, r>>
    ELSE LongDiv((r * 10) % d, d, k - 1, acc * 10 + (r * 10) \div d)

\* round(x, ndigits): the nearest multiple of 10^-ndigits, ties to the even
\* one
round(x, ndigits) ==
    LET q == FloorDiv(x[1], x[2])
        ld == LongDiv(x[1] - q * x[2], x[2], ndigits, q)
        m == IF 2 * ld[2] < x[2] THEN ld[1]
             ELSE IF 2 * ld[2] > x[2] THEN ld[1] + 1
             ELSE IF ld[1] % 2 = 0 THEN ld[1] ELSE ld[1] + 1
    IN  IF x[2] = 1 THEN x ELSE Rat(m, Pow10(ndigits))

----------------------------------------------------------------------------
(* Food catalog items                                                      *)

Nutr(cal, p, f, c) ==
    [calories |-> Dec(cal), protein |-> Dec(p), fat |-> Dec(f), carbs |-> Dec(c)]

ChickenBreast ==
    [id |-> "chicken_breast",
     name |-> <<"C","h","i","c","k","e","n"," ","B","r","e","a","s","t">>,
     per_100g |-> Nutr(1650, 300, 40, 0),
     tags |-> {"halal"}, cost_level |-> "medium"]

BrownRice ==
    [id |-> "brown_rice_cooked",
     name |-> <<"B","r","o","w","n"," ","R","i","c","e">>,
     per_100g |-> Nutr(1100, 25, 10, 200),
     tags |-> {"veg", "vegan", "budget"}, cost_level |-> "low"]

FirmTofu ==
    [id |-> "tofu_firm",
     name |-> <<"F","i","r","m"," ","T","o","f","u">>,
     per_100g |-> Nutr(1440, 160, 100, 25),
     tags |-> {"veg", "vegan", "budget"}, cost_level |-> "low"]

Broccoli ==
    [id |-> "broccoli",
     name |-> <<"B","r","o","c","c","o","l","i">>,
     per_100g |-> Nutr(350, 25, 5, 75),
     tags |-> {"veg", "vegan", "budget"}, cost_level |-> "low"]

OliveOil ==
    [id |-> "olive_oil",
     name |-> <<"O","l","i","v","e"," ","O","i","l">>,
     per_100g |-> Nutr(8840, 0, 1000, 0),
     tags |-> {"veg", "vegan"}, cost_level |-> "medium"]

BeefSteak ==
    [id |-> "beef_steak",
     name |-> <<"B","e","e","f"," ","S","t","e","a","k">>,
     per_100g |-> Nutr(2500, 250, 160, 0),
     tags |-> {"non_veg"}, cost_level |-> "high"]

TurkeyHam ==
    [id |-> "turkey_ham",
     name |-> <<"T","u","r","k","e","y"," ","H","a","m">>,
     per_100g |-> Nutr(1250, 175, 50, 15),
     tags |-> {"non_veg", "halal"}, cost_level |-> "medium"]

\* an item without a cost_level key
Bacon ==
    [id |-> "bacon",
     name |-> <<"B","A","C","O","N">>,
     per_100g |-> Nutr(5400, 375, 420, 15),
     tags |-> {"non_veg"}]

GreekYogurt ==
    [id |-> "greek_yogurt",
     name |-> <<"G","r","e","e","k"," ","Y","o","g","u","r","t">>,
     per_100g |-> Nutr(600, 100, 5, 35),
     tags |-> {"veg"}, cost_level |-> "medium"]

CheddarCheese ==
    [id |-> "cheddar_cheese",
     name |-> <<"C","H","E","E","S","E">>,
     per_100g |-> Nutr(4000, 250, 330, 15),
     tags |-> {"veg", "lactose_free"}, cost_level |-> "high"]

CoconutMilk ==
    [id |-> "coconut_milk",
     name |-> <<"C","o","c","o","n","u","t"," ","M","i","l","k">>,
     per_100g |-> Nutr(2300, 25, 240, 55),
     tags |-> {"veg", "vegan", "halal"}, cost_level |-> "low"]

\* an item without a tags key
GrahamCrackers ==
    [id |-> "graham_crackers",
     name |-> <<"G","r","a","h","a","m">>,
     per_100g |-> Nutr(4300, 70, 100, 770),
     cost_level |-> "low"]

\* an item tagged vegan that does not carry the veg tag as well
RedLentils ==
    [id |-> "red_lentils_cooked",
     name |-> <<"R","e","d"," ","L","e","n","t","i","l","s">>,
     per_100g |-> Nutr(1160, 90, 4, 200),
     tags |-> {"vegan"}, cost_level |-> "low"]

\* the items catalogs are drawn from, in file order
FoodPool ==
    <<ChickenBreast, BrownRice, FirmTofu, Broccoli, OliveOil, BeefSteak,
      TurkeyHam, Bacon, GreekYogurt, CheddarCheese, CoconutMilk,
      GrahamCrackers, RedLentils>>

\* the catalog of the test fixture
FixtureCatalog ==
    <<ChickenBreast, BrownRice, FirmTofu, Broccoli, OliveOil>>

----------------------------------------------------------------------------
(* filter_foods                                                            *)

KwMilk == <<"m","i","l","k">>
KwCheese == <<"c","h","e","e","s","e">>
KwYogurt == <<"y","o","g","u","r","t">>
KwCottage == <<"c","o","t","t","a","g","e">>
KwPork == <<"p","o","r","k">>
KwBacon == <<"b","a","c","o","n">>
KwHam == <<"h","a","m">>
KwBeef == <<"b","e","e","f">>
KwChicken == <<"c","h","i","c","k","e","n">>
KwTurkey == <<"t","u","r","k","e","y">>
KwLamb == <<"l","a","m","b">>

DairyKeywords ==
    {KwMilk, KwCheese, KwYogurt, KwCottage}

NonHalalKeywords ==
    {KwPork, KwBacon, KwHam}

MeatKeywords ==
    {KwBeef, KwChicken, KwTurkey, KwLamb}

\* food.get('tags', [])
food_tags(food) ==
    IF "tags" \in DOMAIN food THEN food.tags ELSE {}

\* food.get('cost_level'); "None" stands for Python's None
food_cost_level(food) ==
    IF "cost_level" \in DOMAIN food THEN food.cost_level ELSE "None"

\* passes_diet_type with the vegan branch accepting what the veg branch does
passes_diet_type_vegan_as_veg(food, diet_tags) ==
    IF "vegan" \in diet_tags \/ ("veg" \in diet_tags /\ "non_veg" \notin diet_tags)
    THEN "veg" \in food_tags(food) \/ "vegan" \in food_tags(food)
    ELSE IF "non_veg" \in diet_tags /\ "veg" \notin diet_tags
    THEN "non_veg" \in food_tags(food)
    ELSE TRUE

\* passes_diet_type with the veg branch accepting only the veg tag
passes_diet_type_veg_tag_only(food, diet_tags) ==
    IF "vegan" \in diet_tags
    THEN "vegan" \in food_tags(food)
    ELSE IF "veg" \in diet_tags /\ "non_veg" \notin diet_tags
    THEN "veg" \in food_tags(food)
    ELSE IF "non_veg" \in diet_tags /\ "veg" \notin diet_tags
    THEN "non_veg" \in food_tags(food)
    ELSE TRUE

\* the diet-type if/elif/elif chain: TRUE when the item survives it
passes_diet_type(food, diet_tags) ==
    IF "vegan" \in diet_tags
    THEN "vegan" \in food_tags(food)
    ELSE IF "veg" \in diet_tags /\ "non_veg" \notin diet_tags
    THEN "veg" \in food_tags(food) \/ "vegan" \in food_tags(food)
    ELSE IF "non_veg" \in diet_tags /\ "veg" \notin diet_tags
    THEN "non_veg" \in food_tags(food)
    ELSE TRUE

\* passes_lactose_free deciding by the item's lactose_free tag
passes_lactose_free_by_tag(food, diet_tags) ==
    "lactose_free" \in diet_tags
        => \/ "lactose_free" \in food_tags(food)
           \/ ~ \E dairy \in DairyKeywords : contains(lower(food.name), dairy)

passes_lactose_free(food, diet_tags) ==
    "lactose_free" \in diet_tags
        => ~ \E dairy \in DairyKeywords : contains(lower(food.name), dairy)

\* passes_halal letting the halal tag override the forbidden keywords
passes_halal_tag_first(food, diet_tags) ==
    "halal" \in diet_tags
        => \/ "halal" \in food_tags(food)
           \/ /\ ~ \E non_halal \in NonHalalKeywords :
                       contains(lower(food.name), non_halal)
              /\ ~ \E meat \in MeatKeywords : contains(lower(food.name), meat)

passes_halal(food, diet_tags) ==
    "halal" \in diet_tags
        => /\ ~ \E non_halal \in NonHalalKeywords :
                    contains(lower(food.name), non_halal)
           /\ (\E meat \in MeatKeywords : contains(lower(food.name), meat))
                    => "halal" \in food_tags(food)

\* passes_budget rejecting only cost_level high
passes_budget_not_high(food, diet_tags) ==
    "budget" \in diet_tags => food_cost_level(food) # "high"

passes_budget(food, diet_tags) ==
    "budget" \in diet_tags => food_cost_level(food) \in {"low", "medium"}

\* the body of the for loop: TRUE when the item reaches filtered_foods.append
passes_filter(food, diet_tags) ==
    /\ passes_diet_type(food, diet_tags)
    /\ passes_lactose_free(food, diet_tags)
    /\ passes_halal(food, diet_tags)
    /\ passes_budget(food, diet_tags)

\* a loop that removes a rejected item from the list it is iterating over
\* and so steps over the item that follows it
RECURSIVE remove_while_iterating(_, _, _)
remove_while_iterating(foods, i, diet_tags) ==
    IF i > Len(foods) THEN foods
    ELSE IF passes_filter(foods[i], diet_tags)
    THEN remove_while_iterating(foods, i + 1, diet_tags)
    ELSE remove_while_iterating(
            SubSeq(foods, 1, i - 1) \o SubSeq(foods, i + 1, Len(foods)),
            i + 1, diet_tags)

\* filter_list removing from the list while iterating over it
filter_list_remove_while_iterating(foods, diet_tags) ==
    IF diet_tags = {}
    THEN foods
    ELSE remove_while_iterating(foods, 1, diet_tags)

\* filter_list taking "no tags" for "nothing asked for, nothing returned"
filter_list_no_tags_nothing(foods, diet_tags) ==
    IF diet_tags = {}
    THEN <<>>
    ELSE LET keep(food) == passes_filter(food, diet_tags)
         IN  SelectSeq(foods, keep)

filter_list(foods, diet_tags) ==
    IF diet_tags = {}
    THEN foods
    ELSE LET keep(food) == passes_filter(food, diet_tags)
         IN  SelectSeq(foods, keep)

\* filter_foods(diet_tags), reading the global FOODS_DB
filter_foods(diet_tags) ==
    filter_list(FOODS_DB, diet_tags)

\* foods_after_filter for a filter that drops the rejected items from the
\* catalog list itself
foods_after_filter_in_place(foods, diet_tags) ==
    filter_list(foods, diet_tags)

\* the catalog list after filter_foods(diet_tags) has run on it: the loop
\* only reads foods and appends what it keeps to the new list
\* filtered_foods, and with no tags the list is handed back as it is
foods_after_filter(foods, diet_tags) ==
    foods

----------------------------------------------------------------------------
(* Energy targets: calculate_bmr, get_activity_factor,                     *)
(* get_calorie_adjustment, calculate_macro_targets                         *)

S_male == <<"m","a","l","e">>
S_female == <<"f","e","m","a","l","e">>
S_sedentary == <<"s","e","d","e","n","t","a","r","y">>
S_light == <<"l","i","g","h","t">>
S_moderate == <<"m","o","d","e","r","a","t","e">>
S_active == <<"a","c","t","i","v","e">>
S_very_active == <<"v","e","r","y","_","a","c","t","i","v","e">>
S_cut == <<"c","u","t">>
S_maintain == <<"m","a","i","n","t","a","i","n">>
S_bulk == <<"b","u","l","k">>

\* 10 * weight_kg + 6.25 * height_cm - 5 * age + 5 (male) or - 161 (else)
\* calculate_bmr with the constants of the two sexes exchanged
calculate_bmr_constants_swapped(sex, age, height_cm, weight_kg) ==
    LET base == RSub(RAdd(RMul(Int2R(10), weight_kg),
                          RMul(Rat(625, 100), height_cm)),
                     RMul(Int2R(5), Int2R(age)))
    IN  IF lower(sex) = S_male
        THEN RSub(base, Int2R(161))
        ELSE RAdd(base, Int2R(5))

calculate_bmr(sex, age, height_cm, weight_kg) ==
    LET base == RSub(RAdd(RMul(Int2R(10), weight_kg),
                          RMul(Rat(625, 100), height_cm)),
                     RMul(Int2R(5), Int2R(age)))
    IN  IF lower(sex) = S_male
        THEN RAdd(base, Int2R(5))
        ELSE RSub(base, Int2R(161))

\* get_activity_factor with the sedentary factor 1.0
get_activity_factor_sedentary_one(activity_level) ==
    LET a == lower(activity_level)
    IN  IF a = S_sedentary THEN Int2R(1)
        ELSE IF a = S_light THEN Rat(1375, 1000)
        ELSE IF a = S_moderate THEN Rat(1550, 1000)
        ELSE IF a = S_active THEN Rat(1725, 1000)
        ELSE IF a = S_very_active THEN Rat(1900, 1000)
        ELSE Rat(1550, 1000)

\* factors.get(activity_level.lower(), 1.55)
get_activity_factor(activity_level) ==
    LET a == lower(activity_level)
    IN  IF a = S_sedentary THEN Rat(1200, 1000)
        ELSE IF a = S_light THEN Rat(1375, 1000)
        ELSE IF a = S_moderate THEN Rat(1550, 1000)
        ELSE IF a = S_active THEN Rat(1725, 1000)
        ELSE IF a = S_very_active THEN Rat(1900, 1000)
        ELSE Rat(1550, 1000)

\* get_calorie_adjustment with the signs of cut and bulk exchanged
get_calorie_adjustment_swapped(goal) ==
    LET g == lower(goal)
    IN  IF g = S_cut THEN Rat(15, 100)
        ELSE IF g = S_maintain THEN Int2R(0)
        ELSE IF g = S_bulk THEN Rat(-20, 100)
        ELSE Int2R(0)

\* adjustments.get(goal.lower(), 0.0)
get_calorie_adjustment(goal) ==
    LET g == lower(goal)
    IN  IF g = S_cut THEN Rat(-20, 100)
        ELSE IF g = S_maintain THEN Int2R(0)
        ELSE IF g = S_bulk THEN Rat(15, 100)
        ELSE Int2R(0)

\* calculate_macro_targets with a carbohydrate ratio of 0.45 whatever the
\* other two ratios are
calculate_macro_targets_fixed_carb_ratio(calories, goal) ==
    LET g == lower(goal)
        protein_ratio == IF g = S_cut THEN Rat(35, 100)
                         ELSE IF g = S_bulk THEN Rat(25, 100)
                         ELSE Rat(30, 100)
        fat_ratio == Rat(25, 100)
        carb_ratio == Rat(45, 100)
    IN  [protein_g |-> RDiv(RMul(calories, protein_ratio), Int2R(4)),
         fat_g |-> RDiv(RMul(calories, fat_ratio), Int2R(9)),
         carbs_g |-> RDiv(RMul(calories, carb_ratio), Int2R(4))]

calculate_macro_targets(calories, goal) ==
    LET g == lower(goal)
        protein_ratio == IF g = S_cut THEN Rat(35, 100)
                         ELSE IF g = S_bulk THEN Rat(25, 100)
                         ELSE Rat(30, 100)
        fat_ratio == Rat(25, 100)
        carb_ratio == RSub(RSub(Int2R(1), protein_ratio), fat_ratio)
    IN  [protein_g |-> RDiv(RMul(calories, protein_ratio), Int2R(4)),
         fat_g |-> RDiv(RMul(calories, fat_ratio), Int2R(9)),
         carbs_g |-> RDiv(RMul(calories, carb_ratio), Int2R(4))]

----------------------------------------------------------------------------
(* HTTP responses and exceptions                                           *)

\* a response with a JSON body
Ok(body) ==
    [kind |-> "http", status |-> 200, body |-> body]

\* an error response: detail is a text, a sequence of fragments (the pieces
\* an f-string is put together from)
ErrorResponse(status_code, text) ==
    [kind |-> "http", status |-> status_code,
     detail |-> [type |-> "text", text |-> text]]

\* FastAPI's answer to a request its pydantic model rejects: status 422 and
\* detail the list of field errors
RequestValidationError(errors) ==
    [kind |-> "http", status |-> 422,
     detail |-> [type |-> "errors", errors |-> errors]]

\* statement order: what came first is complete before the rest runs
after(first, rest) ==
    <<first, rest>>[2]

\* raise exc inside a handler's try block
Raise(exc) ==
    [kind |-> "raised", exc |-> exc]

\* HTTPException(status_code=..., detail=...)
HTTPException(status_code, detail) ==
    [type |-> "HTTPException", status_code |-> status_code, detail |-> detail]

\* what a float division by 0.0 raises
ZeroDivisionError ==
    [type |-> "ZeroDivisionError"]

\* the decimal digits of a status code the handlers raise
StatusText(status_code) ==
    IF status_code = 400 THEN "400"
    ELSE IF status_code = 422 THEN "422"
    ELSE "500"

\* str(e): "<status_code>: <detail>" for an HTTPException
str_exc(e) ==
    IF e.type = "HTTPException"
    THEN <<StatusText(e.status_code), ": ">> \o e.detail
    ELSE <<"float division by zero">>

\* except_Exception letting an HTTPException through as it was raised
except_Exception_reraise(result, prefix) ==
    IF result.kind = "raised"
    THEN IF result.exc.type = "HTTPException"
         THEN ErrorResponse(result.exc.status_code, result.exc.detail)
         ELSE ErrorResponse(500, <<prefix>> \o str_exc(result.exc))
    ELSE result

\* try: ... except Exception as e: raise HTTPException(500, prefix + str(e))
\* HTTPException is an Exception, so a handler's own 4xx is caught too
except_Exception(result, prefix) ==
    IF result.kind = "raised"
    THEN ErrorResponse(500, <<prefix>> \o str_exc(result.exc))
    ELSE result

----------------------------------------------------------------------------
(* TDEERequest: the pydantic model of POST /tdee                           *)

FieldError(loc, msg) ==
    [loc |-> loc, msg |-> msg]

\* range_errors with gt / lt in place of ge / le
range_errors_exclusive(loc, value, lo, hi) ==
    IF RLe(value, Int2R(lo))
    THEN <<[loc |-> loc, msg |-> "ensure this value is greater than"]>>
    ELSE IF RLe(Int2R(hi), value)
    THEN <<[loc |-> loc, msg |-> "ensure this value is less than"]>>
    ELSE <<>>

\* Field(..., ge=lo, le=hi) on a number
range_errors(loc, value, lo, hi) ==
    IF RLt(value, Int2R(lo))
    THEN <<FieldError(loc, "ensure this value is greater than or equal to")>>
    ELSE IF RLt(Int2R(hi), value)
    THEN <<FieldError(loc, "ensure this value is less than or equal to")>>
    ELSE <<>>

\* validate_sex accepting any string
validate_sex_any(v) ==
    <<>>

\* @validator('sex')
validate_sex(v) ==
    IF lower(v) \notin {S_male, S_female}
    THEN <<FieldError("sex", "Sex must be 'male' or 'female'")>>
    ELSE <<>>

\* @validator('activity_level')
validate_activity(v) ==
    IF lower(v) \notin {S_sedentary, S_light, S_moderate, S_active, S_very_active}
    THEN <<FieldError("activity_level",
            "Activity level must be one of: sedentary, light, moderate, active, very_active")>>
    ELSE <<>>

\* @validator('goal')
validate_goal(v) ==
    IF lower(v) \notin {S_cut, S_maintain, S_bulk}
    THEN <<FieldError("goal", "Goal must be one of: cut, maintain, bulk")>>
    ELSE <<>>

\* the errors pydantic collects for a raw /tdee body, in field order
TDEERequest_errors(raw) ==
    validate_sex(raw.sex)
        \o range_errors("age", Int2R(raw.age), 10, 120)
        \o range_errors("height_cm", raw.height_cm, 100, 250)
        \o range_errors("weight_kg", raw.weight_kg, 30, 300)
        \o validate_activity(raw.activity_level)
        \o validate_goal(raw.goal)

\* the validated model: the validators return v.lower()
TDEERequest(raw) ==
    [sex |-> lower(raw.sex), age |-> raw.age, height_cm |-> raw.height_cm,
     weight_kg |-> raw.weight_kg,
     activity_level |-> lower(raw.activity_level), goal |-> lower(raw.goal)]

----------------------------------------------------------------------------
(* POST /tdee                                                              *)

\* the try block of calculate_tdee
calculate_tdee_try(req) ==
    IF lower(req.sex) \notin {S_male, S_female}
    THEN Raise(HTTPException(400, <<"Sex must be 'male' or 'female'">>))
    ELSE IF lower(req.activity_level) \notin
                {S_sedentary, S_light, S_moderate, S_active, S_very_active}
    THEN Raise(HTTPException(400, <<"Invalid activity level">>))
    ELSE IF lower(req.goal) \notin {S_cut, S_maintain, S_bulk}
    THEN Raise(HTTPException(400, <<"Goal must be 'cut', 'maintain', or 'bulk'">>))
    ELSE
    LET bmr == calculate_bmr(req.sex, req.age, req.height_cm, req.weight_kg)
        activity_factor == get_activity_factor(req.activity_level)
        tdee == RMul(bmr, activity_factor)
        calorie_adjustment == get_calorie_adjustment(req.goal)
        target_calories == RMul(tdee, RAdd(Int2R(1), calorie_adjustment))
        macro_targets == calculate_macro_targets(target_calories, req.goal)
    IN  Ok([tdee |-> round(tdee, 1),
            target_calories |-> round(target_calories, 1),
            macro_targets |->
                [protein_g |-> round(macro_targets.protein_g, 1),
                 fat_g |-> round(macro_targets.fat_g, 1),
                 carbs_g |-> round(macro_targets.carbs_g, 1)],
            bmr |-> round(bmr, 1),
            activity_factor |-> activity_factor])

\* calculate_tdee(request: TDEERequest), the handler
calculate_tdee(req) ==
    except_Exception(calculate_tdee_try(req), "Calculation error: ")

\* POST /tdee with a raw JSON body: FastAPI validates the body against
\* TDEERequest and only then calls the handler
post_tdee(raw) ==
    /\ pc = "idle"
    /\ request' = [path |-> "/tdee", body |-> raw]
    /\ response' = IF TDEERequest_errors(raw) # <<>>
                   THEN RequestValidationError(TDEERequest_errors(raw))
                   ELSE calculate_tdee(TDEERequest(raw))
    /\ pc' = "responded"
    /\ UNCHANGED <<FOODS_DB, rng>>

----------------------------------------------------------------------------
(* Bounds of the model                                                     *)

\* longest catalog drawn from FoodPool when checking filter_foods
MaxCatalogLen == 2

\* length of the cyclic stream of numbers the random source hands out
RngLen == 2

\* most days a plan request of the planning specification asks for
MaxPlanDays == 2

\* number of clients with a request in progress at the same time
MaxClients == 2

----------------------------------------------------------------------------
(* The random source: a cyclic stream of draws, each low (0), middle (1)    *)
(* or high (2)                                                             *)

Draws ==
    {0, 1, 2}

\* the random state after one draw
Advance(r) ==
    [r EXCEPT !.pos = (r.pos % Len(r.stream)) + 1]

\* random_choice shifted by a count kept outside the random source: the
\* number of responses waiting to be sent
random_choice_hidden_count(r, seq) ==
    [value |-> seq[((r.stream[r.pos]
                        + Cardinality({c \in DOMAIN pc : pc[c] = "responded"}))
                    % Len(seq)) + 1],
     rng |-> Advance(r)]

\* random.choice(seq) for a non-empty list
random_choice(r, seq) ==
    [value |-> seq[(r.stream[r.pos] % Len(seq)) + 1], rng |-> Advance(r)]

\* random.randint(a, b): a low draw gives a, a high draw b, a middle draw
\* the midpoint
random_randint(r, a, b) ==
    [value |-> a + (r.stream[r.pos] * (b - a)) \div 2, rng |-> Advance(r)]

----------------------------------------------------------------------------
(* generate_meal                                                           *)

\* the block every phase repeats: scale the item to amount grams, append
\* the rounded FoodItem, add the unrounded values to the running totals
add_food(m, food, amount) ==
    LET scale_factor == RDiv(amount, Int2R(100))
        food_calories == RMul(food.per_100g.calories, scale_factor)
        food_protein == RMul(food.per_100g.protein, scale_factor)
        food_fat == RMul(food.per_100g.fat, scale_factor)
        food_carbs == RMul(food.per_100g.carbs, scale_factor)
    IN  [m EXCEPT
            !.selected_foods = Append(@,
                [name |-> food.name,
                 amount_g |-> round(amount, 1),
                 calories |-> round(food_calories, 1),
                 protein |-> round(food_protein, 1),
                 fat |-> round(food_fat, 1),
                 carbs |-> round(food_carbs, 1)]),
            !.current_calories = RAdd(@, food_calories),
            !.current_protein = RAdd(@, food_protein),
            !.current_fat = RAdd(@, food_fat),
            !.current_carbs = RAdd(@, food_carbs)]

\* clamp without the lower bound
clamp_upper_only(lo, hi, x) ==
    RMin(Int2R(hi), x)

\* min(hi, max(lo, x))
clamp(lo, hi, x) ==
    RMin(Int2R(hi), RMax(Int2R(lo), x))

protein_phase(m, target_protein, protein_foods) ==
    IF protein_foods # <<>>
    THEN LET c == random_choice(m.rng, protein_foods)
             protein_food == c.value
             protein_amount ==
                 clamp(50, 150,
                       RMul(RDiv(RMul(target_protein, Rat(75, 100)),
                                 protein_food.per_100g.protein), Int2R(100)))
         IN  add_food([m EXCEPT !.rng = c.rng], protein_food, protein_amount)
    ELSE m

\* carb_phase adding a carb source whenever any carb need remains
carb_phase_any_need(m, target_carbs, carb_foods) ==
    LET remaining_carbs == RSub(target_carbs, m.current_carbs)
    IN  after(m,
        IF RLt(Int2R(0), remaining_carbs) /\ carb_foods # <<>>
        THEN LET c == random_choice(m.rng, carb_foods)
                 carb_food == c.value
                 carb_amount ==
                     clamp(50, 200,
                           RMul(RDiv(remaining_carbs, carb_food.per_100g.carbs),
                                Int2R(100)))
             IN  add_food([m EXCEPT !.rng = c.rng], carb_food, carb_amount)
        ELSE m)

carb_phase(m, target_carbs, carb_foods) ==
    LET remaining_carbs == RSub(target_carbs, m.current_carbs)
    IN  after(m,
        IF RLt(Int2R(10), remaining_carbs) /\ carb_foods # <<>>
        THEN LET c == random_choice(m.rng, carb_foods)
                 carb_food == c.value
                 carb_amount ==
                     clamp(50, 200,
                           RMul(RDiv(remaining_carbs, carb_food.per_100g.carbs),
                                Int2R(100)))
             IN  add_food([m EXCEPT !.rng = c.rng], carb_food, carb_amount)
        ELSE m)

fat_phase(m, target_fat, fat_foods) ==
    LET remaining_fat == RSub(target_fat, m.current_fat)
    IN  after(m,
        IF RLt(Int2R(5), remaining_fat) /\ fat_foods # <<>>
        THEN LET c == random_choice(m.rng, fat_foods)
                 fat_food == c.value
                 fat_amount ==
                     clamp(20, 100,
                           RMul(RDiv(remaining_fat, fat_food.per_100g.fat),
                                Int2R(100)))
             IN  add_food([m EXCEPT !.rng = c.rng], fat_food, fat_amount)
        ELSE m)

veggie_phase(m, veggie_foods) ==
    after(m,
    IF veggie_foods # <<>> /\ Len(m.selected_foods) < 4
    THEN LET c == random_choice(m.rng, veggie_foods)
             veggie_food == c.value
             a == random_randint(c.rng, 50, 150)
         IN  add_food([m EXCEPT !.rng = a.rng], veggie_food, Int2R(a.value))
    ELSE m)

\* lines 435-441: the Meal built from the selection, and the random state
make_meal(meal_name, m) ==
    [meal |-> [name |-> meal_name,
               foods |-> m.selected_foods,
               totals |-> [calories |-> round(m.current_calories, 1),
                           protein |-> round(m.current_protein, 1),
                           fat |-> round(m.current_fat, 1),
                           carbs |-> round(m.current_carbs, 1)]],
     rng |-> m.rng]

\* empty_selection with the selection kept at module level: a call starts
\* from the list and running totals the last Meal of a Plan that is still
\* waiting to be sent was left with
empty_selection_shared(r) ==
    LET planned == {c \in DOMAIN response :
                        response[c].kind = "http" /\ response[c].status = 200}
        other == CHOOSE c \in planned : TRUE
        last == response[other].body.days[Len(response[other].body.days)].meals[3]
    IN  IF planned = {}
        THEN [selected_foods |-> <<>>,
              current_calories |-> Int2R(0), current_protein |-> Int2R(0),
              current_fat |-> Int2R(0), current_carbs |-> Int2R(0),
              rng |-> r]
        ELSE [selected_foods |-> last.foods,
              current_calories |-> last.totals.calories,
              current_protein |-> last.totals.protein,
              current_fat |-> last.totals.fat,
              current_carbs |-> last.totals.carbs,
              rng |-> r]

\* the empty selection generate_meal starts from
empty_selection(r) ==
    [selected_foods |-> <<>>,
     current_calories |-> Int2R(0), current_protein |-> Int2R(0),
     current_fat |-> Int2R(0), current_carbs |-> Int2R(0),
     rng |-> r]

\* generate_meal drawing from r; yields the Meal and the random state left
generate_meal(target_calories, target_protein, target_fat, target_carbs, available_foods, meal_name, r) ==
    LET is_protein(f) == RLt(Int2R(10), f.per_100g.protein)
        is_carb(f) == RLt(Int2R(15), f.per_100g.carbs)
        is_fat(f) == RLt(Int2R(8), f.per_100g.fat)
        is_veggie(f) == /\ RLt(f.per_100g.carbs, Int2R(10))
                        /\ RLt(f.per_100g.protein, Int2R(5))
        protein_foods == SelectSeq(available_foods, is_protein)
        carb_foods == SelectSeq(available_foods, is_carb)
        fat_foods == SelectSeq(available_foods, is_fat)
        veggie_foods == SelectSeq(available_foods, is_veggie)
    IN  make_meal(meal_name,
            veggie_phase(
                fat_phase(
                    carb_phase(
                        protein_phase(empty_selection(r), target_protein,
                                      protein_foods),
                        target_carbs, carb_foods),
                    target_fat, fat_foods),
                veggie_foods))

----------------------------------------------------------------------------
(* generate_day_plan                                                       *)

\* sum_totals leaving out the last meal
sum_totals_without_last(meals, key) ==
    RAdd(meals[1].totals[key], meals[2].totals[key])

\* sum(meal.totals[key] for meal in meals) for the three meals
sum_totals(meals, key) ==
    RAdd(RAdd(meals[1].totals[key], meals[2].totals[key]), meals[3].totals[key])

\* lines 459-474: the DayPlan of the three generated meals
make_day(day_num, b, l, d) ==
    LET meals == <<b.meal, l.meal, d.meal>>
    IN  [day_plan |-> [day |-> day_num,
                       meals |-> meals,
                       daily_totals |-> [calories |-> sum_totals(meals, "calories"),
                                         protein |-> sum_totals(meals, "protein"),
                                         fat |-> sum_totals(meals, "fat"),
                                         carbs |-> sum_totals(meals, "carbs")]],
         rng |-> d.rng]

\* the meal that gets pct percent of the day's targets
meal_share(pct, daily_calories, daily_protein, daily_fat, daily_carbs, available_foods, meal_name, r) ==
    generate_meal(RMul(daily_calories, Rat(pct, 100)),
                  RMul(daily_protein, Rat(pct, 100)),
                  RMul(daily_fat, Rat(pct, 100)),
                  RMul(daily_carbs, Rat(pct, 100)),
                  available_foods, meal_name, r)

\* dinner after breakfast b and lunch l
day_dinner(day_num, daily_calories, daily_protein, daily_fat, daily_carbs, available_foods, b, l) ==
    make_day(day_num, b, l,
             meal_share(40, daily_calories, daily_protein, daily_fat,
                        daily_carbs, available_foods, "Dinner", l.rng))

\* lunch and dinner after breakfast b
day_lunch(day_num, daily_calories, daily_protein, daily_fat, daily_carbs, available_foods, b) ==
    day_dinner(day_num, daily_calories, daily_protein, daily_fat, daily_carbs,
               available_foods, b,
               meal_share(35, daily_calories, daily_protein, daily_fat,
                          daily_carbs, available_foods, "Lunch", b.rng))

\* generate_day_plan drawing from r; yields the DayPlan and the random
\* state left
generate_day_plan(day_num, daily_calories, daily_protein, daily_fat, daily_carbs, available_foods, r) ==
    day_lunch(day_num, daily_calories, daily_protein, daily_fat, daily_carbs,
              available_foods,
              meal_share(25, daily_calories, daily_protein, daily_fat,
                         daily_carbs, available_foods, "Breakfast", r))

----------------------------------------------------------------------------
(* MealPlanRequest and POST /mealplan                                      *)

\* the errors pydantic collects for a raw /mealplan body, in field order
MealPlanRequest_errors(raw) ==
    range_errors("calories", raw.calories, 800, 6000)
        \o range_errors("protein_g", raw.protein_g, 50, 400)
        \o range_errors("fat_g", raw.fat_g, 20, 200)
        \o range_errors("carbs_g", raw.carbs_g, 50, 800)
        \o (IF "days" \in DOMAIN raw
            THEN range_errors("days", Int2R(raw.days), 1, 14)
            ELSE <<>>)

\* the validated model, with the defaults diet_tags=[] and days=7
MealPlanRequest(raw) ==
    [calories |-> raw.calories, protein_g |-> raw.protein_g,
     fat_g |-> raw.fat_g, carbs_g |-> raw.carbs_g,
     diet_tags |-> IF "diet_tags" \in DOMAIN raw THEN raw.diet_tags ELSE {},
     days |-> IF "days" \in DOMAIN raw THEN raw.days ELSE 7]

\* generate_complete_nutrition_report, step 2: the keyword arguments it
\* builds a MealPlanRequest from, out of the /tdee result and the
\* meal_preferences of its request
report_meal_plan_body(tdee_result, meal_preferences) ==
    [calories |-> tdee_result.target_calories,
     protein_g |-> tdee_result.macro_targets.protein_g,
     fat_g |-> tdee_result.macro_targets.fat_g,
     carbs_g |-> tdee_result.macro_targets.carbs_g,
     diet_tags |-> IF "diet_tags" \in DOMAIN meal_preferences
                   THEN meal_preferences.diet_tags ELSE {},
     days |-> IF "days" \in DOMAIN meal_preferences
              THEN meal_preferences.days ELSE 7]

\* lines 529-533: append the day and add its totals to the running totals
add_day(acc, g) ==
    [days |-> Append(acc.days, g.day_plan),
     total_calories |-> RAdd(acc.total_calories, g.day_plan.daily_totals.calories),
     total_protein |-> RAdd(acc.total_protein, g.day_plan.daily_totals.protein),
     total_fat |-> RAdd(acc.total_fat, g.day_plan.daily_totals.fat),
     total_carbs |-> RAdd(acc.total_carbs, g.day_plan.daily_totals.carbs),
     rng |-> g.rng]

\* plan_days looping over range(1, request.days)
RECURSIVE plan_days_one_short(_, _, _, _)
plan_days_one_short(day_num, req, available_foods, acc) ==
    IF Len(acc.days) + 1 >= req.days
    THEN acc
    ELSE plan_days_one_short(day_num + 1, req, available_foods,
            add_day(acc,
                generate_day_plan(day_num, req.calories, req.protein_g,
                                  req.fat_g, req.carbs_g, available_foods,
                                  acc.rng)))

\* the for loop of generate_meal_plan from day_num on; acc holds days, the
\* four running totals and the random state. day_num is one more than the
\* number of days appended so far, so the loop ends (day_num > req.days)
\* when days holds req.days of them
RECURSIVE plan_days(_, _, _, _)
plan_days(day_num, req, available_foods, acc) ==
    IF Len(acc.days) >= req.days
    THEN acc
    ELSE plan_days(day_num + 1, req, available_foods,
            add_day(acc,
                generate_day_plan(day_num, req.calories, req.protein_g,
                                  req.fat_g, req.carbs_g, available_foods,
                                  acc.rng)))

\* adherence clamped to [0, 1] for each nutrient on its own
adherence_clamped_each(total, target_total) ==
    RMax(Int2R(0), RMin(Int2R(1),
        RSub(Int2R(1), RDiv(RAbs(RSub(total, target_total)), target_total))))

\* 1 - abs(total - target_total) / target_total
adherence(total, target_total) ==
    RSub(Int2R(1), RDiv(RAbs(RSub(total, target_total)), target_total))

\* lines 534-557: the plan totals, the adherence score and the response,
\* from the loop's result p
finish_plan(req, p) ==
    LET plan_totals ==
            [calories |-> round(p.total_calories, 1),
             protein |-> round(p.total_protein, 1),
             fat |-> round(p.total_fat, 1),
             carbs |-> round(p.total_carbs, 1),
             avg_daily_calories |->
                 round(RDiv(p.total_calories, Int2R(req.days)), 1)]
        target_total_calories == RMul(req.calories, Int2R(req.days))
        target_total_protein == RMul(req.protein_g, Int2R(req.days))
        target_total_fat == RMul(req.fat_g, Int2R(req.days))
        target_total_carbs == RMul(req.carbs_g, Int2R(req.days))
    IN  after(p,
        IF \/ target_total_calories[1] = 0 \/ target_total_protein[1] = 0
           \/ target_total_fat[1] = 0 \/ target_total_carbs[1] = 0
        THEN [result |-> Raise(ZeroDivisionError), rng |-> p.rng]
        ELSE
        LET calorie_adherence == adherence(p.total_calories, target_total_calories)
            protein_adherence == adherence(p.total_protein, target_total_protein)
            fat_adherence == adherence(p.total_fat, target_total_fat)
            carb_adherence == adherence(p.total_carbs, target_total_carbs)
            adherence_score ==
                RDiv(RAdd(RAdd(calorie_adherence, protein_adherence),
                          RAdd(fat_adherence, carb_adherence)), Int2R(4))
            clamped == RMax(Int2R(0), RMin(Int2R(1), adherence_score))
        IN  [result |-> Ok([days |-> p.days,
                            plan_totals |-> plan_totals,
                            adherence_score |-> round(clamped, 3)]),
             rng |-> p.rng])

\* generate_meal_plan from "days = []" on: the loop over the days, then the
\* totals and the score; yields the result and the random state
plan_body(req, available_foods, r) ==
    finish_plan(req,
        plan_days(1, req, available_foods,
            [days |-> <<>>,
             total_calories |-> Int2R(0), total_protein |-> Int2R(0),
             total_fat |-> Int2R(0), total_carbs |-> Int2R(0),
             rng |-> r]))

\* plan_from refusing a list without a protein source as well
plan_from_needs_protein(req, available_foods, r) ==
    LET is_protein(f) == RLt(Int2R(10), f.per_100g.protein)
    IN  IF SelectSeq(available_foods, is_protein) = <<>>
        THEN [result |-> Raise(HTTPException(400,
                <<"No foods available for the specified dietary restrictions">>)),
              rng |-> r]
        ELSE plan_body(req, available_foods, r)

\* plan_from without the check for an empty list
plan_from_unchecked(req, available_foods, r) ==
    plan_body(req, available_foods, r)

\* the try block of generate_meal_plan given the foods the filter left:
\* "if not available_foods: raise HTTPException(400, ...)", then the plan
plan_from(req, available_foods, r) ==
    IF available_foods = <<>>
    THEN [result |-> Raise(HTTPException(400,
            <<"No foods available for the specified dietary restrictions">>)),
          rng |-> r]
    ELSE plan_body(req, available_foods, r)

\* generate_meal_plan_try planning from the whole catalog
generate_meal_plan_try_unfiltered(req, r) ==
    plan_from(req, FOODS_DB, r)

\* the try block of generate_meal_plan
generate_meal_plan_try(req, r) ==
    plan_from(req, filter_foods(req.diet_tags), r)

\* the except clause applied to what the try block t yields
except_plan(t) ==
    after(t,
    [result |-> except_Exception(t.result, "Meal plan generation error: "),
     rng |-> t.rng])

\* generate_meal_plan(request: MealPlanRequest), the handler
generate_meal_plan(req, r) ==
    except_plan(generate_meal_plan_try(req, r))

\* the handler's outcome g becomes the response; the random source keeps
\* the state the handler left it in
respond_plan(g) ==
    /\ response' = g.result
    /\ rng' = g.rng

\* POST /mealplan with a raw JSON body: FastAPI validates the body against
\* MealPlanRequest and only then calls the handler
post_mealplan(raw) ==
    /\ pc = "idle"
    /\ request' = [path |-> "/mealplan", body |-> raw]
    /\ IF MealPlanRequest_errors(raw) # <<>>
       THEN /\ response' = RequestValidationError(MealPlanRequest_errors(raw))
            /\ rng' = rng
       ELSE \E g \in {generate_meal_plan(MealPlanRequest(raw), rng)} :
                respond_plan(g)
    /\ pc' = "responded"
    /\ FOODS_DB' = IF MealPlanRequest_errors(raw) # <<>>
                   THEN FOODS_DB
                   ELSE foods_after_filter(FOODS_DB, MealPlanRequest(raw).diet_tags)

----------------------------------------------------------------------------
(* Requests, responses and the random source                               *)

NoRequest ==
    [path |-> "none"]

NoResponse ==
    [kind |-> "none"]

\* what a direct Python call hands back
Returned(value) ==
    [kind |-> "value", value |-> value]

\* the set of elements of a sequence
Range(s) ==
    {s[i] : i \in DOMAIN s}

\* the diet tags requests are built from; "keto" is a tag no rule knows
DietTags ==
    {"vegan", "veg", "non_veg", "lactose_free", "halal", "budget", "keto"}

\* catalogs of at most n pool items, kept in pool order
Catalogs(n) ==
    LET Idx == UNION {[1..k -> 1..Len(FoodPool)] : k \in 0..n}
        Inc == {s \in Idx : \A i \in 1..Len(s), j \in 1..Len(s) :
                                i < j => s[i] < s[j]}
    IN  {[i \in 1..Len(s) |-> FoodPool[s[i]]] : s \in Inc}

\* the random streams
RngStreams ==
    [1..RngLen -> Draws]

FixedRng ==
    [stream |-> [i \in 1..RngLen |-> 0], pos |-> 1]

----------------------------------------------------------------------------
(* Operations                                                              *)

\* a direct call filter_foods(diet_tags), as the unit tests make it
call_filter_foods(diet_tags) ==
    /\ pc = "idle"
    /\ request' = [path |-> "filter_foods", diet_tags |-> diet_tags]
    /\ response' = Returned(filter_foods(diet_tags))
    /\ pc' = "responded"
    /\ FOODS_DB' = foods_after_filter(FOODS_DB, diet_tags)
    /\ UNCHANGED rng

\* generate_meal_plan called as a function with a request object req, as
\* generate_complete_nutrition_report calls it; the fields of req are
\* whatever the caller put there
call_generate_meal_plan(req) ==
    /\ pc = "idle"
    /\ request' = [path |-> "generate_meal_plan", body |-> req]
    /\ \E g \in {generate_meal_plan(req, rng)} : respond_plan(g)
    /\ pc' = "responded"
    /\ FOODS_DB' = foods_after_filter(FOODS_DB, req.diet_tags)

\* research_effect without the copy: request_info is put into the
\* database dict itself
research_effect_no_copy(db) ==
    [returned |-> [foods |-> db.foods,
                   request_info |-> [purpose |-> "research_access"]],
     db |-> [foods |-> db.foods,
             request_info |-> [purpose |-> "research_access"]]]

\* research_data = FOODS_DB.copy(); research_data["request_info"] = ...:
\* what is returned, and the database dict afterwards
research_effect(db) ==
    [returned |-> [foods |-> db.foods,
                   request_info |-> [purpose |-> "research_access"]],
     db |-> db]

\* GET /research/food-database
get_research_food_database ==
    /\ pc = "idle"
    /\ request' = [path |-> "/research/food-database"]
    /\ response' = Ok(research_effect([foods |-> FOODS_DB]).returned)
    /\ pc' = "responded"
    /\ FOODS_DB' = research_effect([foods |-> FOODS_DB]).db.foods
    /\ UNCHANGED rng

\* the response has been handed to the caller; the server waits again
Return ==
    /\ pc = "responded"
    /\ pc' = "idle"
    /\ request' = NoRequest
    /\ response' = NoResponse
    /\ UNCHANGED <<FOODS_DB, rng>>

----------------------------------------------------------------------------
(* Specification of filter_foods over catalogs drawn from FoodPool         *)

InitFilter ==
    /\ FOODS_DB \in Catalogs(MaxCatalogLen)
    /\ rng = FixedRng
    /\ pc = "idle"
    /\ request = NoRequest
    /\ response = NoResponse

NextFilter ==
    \/ \E diet_tags \in SUBSET DietTags : call_filter_foods(diet_tags)
    \/ Return

SpecFilter ==
    InitFilter /\ [][NextFilter]_vars

----------------------------------------------------------------------------
(* Specification of the two endpoints over boundary-rich request bodies    *)

S_Male == <<"M","a","l","e">>
S_ACTIVE == <<"A","C","T","I","V","E">>
S_Cut == <<"C","u","t">>
S_invalid == <<"i","n","v","a","l","i","d">>

SexInputs ==
    {S_male, S_female, S_Male, S_invalid}

ActivityInputs ==
    {S_sedentary, S_light, S_moderate, S_active, S_very_active, S_ACTIVE,
     S_invalid}

GoalInputs ==
    {S_cut, S_maintain, S_bulk, S_Cut, S_invalid}

TdeeBody(sex, age, height_cm, weight_kg, activity_level, goal) ==
    [sex |-> sex, age |-> age, height_cm |-> height_cm,
     weight_kg |-> weight_kg, activity_level |-> activity_level, goal |-> goal]

\* the request bodies of TestTDEEEndpoint, those of test_invalid_sex,
\* test_invalid_activity_level and test_invalid_goal among them
SampleTdeeBodies ==
    {TdeeBody(S_male, 30, Int2R(175), Int2R(70), S_moderate, S_cut),
     TdeeBody(S_invalid, 30, Int2R(175), Int2R(70), S_moderate, S_cut),
     TdeeBody(S_male, 30, Int2R(175), Int2R(70), S_invalid, S_cut),
     TdeeBody(S_male, 30, Int2R(175), Int2R(70), S_moderate, S_invalid),
     TdeeBody(S_female, 25, Int2R(165), Int2R(60), S_active, S_bulk),
     TdeeBody(S_female, 35, Int2R(160), Int2R(65), S_light, S_maintain)}

\* /tdee bodies: every field on, just inside and just outside its bounds
TdeeInputs ==
    SampleTdeeBodies \cup
    {TdeeBody(sex, age, height_cm, weight_kg, activity_level, goal) :
        sex \in SexInputs,
        age \in {9, 10, 120, 121},
        height_cm \in {Dec(999), Int2R(100), Int2R(250), Dec(2501)},
        weight_kg \in {Dec(299), Int2R(30), Int2R(300), Dec(3001)},
        activity_level \in ActivityInputs,
        goal \in GoalInputs}

PlanBody(calories, protein_g, fat_g, carbs_g, diet_tags, days) ==
    [calories |-> calories, protein_g |-> protein_g, fat_g |-> fat_g,
     carbs_g |-> carbs_g, diet_tags |-> diet_tags, days |-> days]

\* /mealplan bodies on, inside and just outside the bounds, and bodies
\* that leave days and diet_tags to their defaults
MealPlanBoundaryInputs ==
    {PlanBody(calories, protein_g, fat_g, carbs_g, {}, days) :
        calories \in {Dec(7999), Int2R(800), Int2R(6000), Dec(60001)},
        protein_g \in {Dec(499), Int2R(50), Int2R(400), Dec(4001)},
        fat_g \in {Dec(199), Int2R(20), Int2R(200), Dec(2001)},
        carbs_g \in {Dec(499), Int2R(50), Int2R(800), Dec(8001)},
        days \in {0, 1, 14, 15}}
    \cup
    {[calories |-> calories, protein_g |-> Int2R(150), fat_g |-> Int2R(67),
      carbs_g |-> Int2R(200)] :
        calories \in {Dec(7999), Int2R(2000), Dec(60001)}}

InitApi ==
    /\ FOODS_DB = FixtureCatalog
    /\ rng = FixedRng
    /\ pc = "idle"
    /\ request = NoRequest
    /\ response = NoResponse

NextApi ==
    \/ \E raw \in TdeeInputs : post_tdee(raw)
    \/ \E raw \in MealPlanBoundaryInputs : post_mealplan(raw)
    \/ Return

SpecApi ==
    InitApi /\ [][NextApi]_vars

----------------------------------------------------------------------------
(* Specification of the calculation functions called one by one, as        *)
(* TestCalculationFunctions calls them, next to POST /tdee                 *)

\* calculate_bmr(sex, age, height_cm, weight_kg)
call_calculate_bmr(sex, age, height_cm, weight_kg) ==
    /\ pc = "idle"
    /\ request' = [path |-> "calculate_bmr", sex |-> sex, age |-> age,
                   height_cm |-> height_cm, weight_kg |-> weight_kg]
    /\ response' = Returned(calculate_bmr(sex, age, height_cm, weight_kg))
    /\ pc' = "responded"
    /\ UNCHANGED <<FOODS_DB, rng>>

\* get_activity_factor(activity_level)
call_get_activity_factor(activity_level) ==
    /\ pc = "idle"
    /\ request' = [path |-> "get_activity_factor",
                   activity_level |-> activity_level]
    /\ response' = Returned(get_activity_factor(activity_level))
    /\ pc' = "responded"
    /\ UNCHANGED <<FOODS_DB, rng>>

\* get_calorie_adjustment(goal)
call_get_calorie_adjustment(goal) ==
    /\ pc = "idle"
    /\ request' = [path |-> "get_calorie_adjustment", goal |-> goal]
    /\ response' = Returned(get_calorie_adjustment(goal))
    /\ pc' = "responded"
    /\ UNCHANGED <<FOODS_DB, rng>>

\* calculate_macro_targets(calories, goal)
call_calculate_macro_targets(calories, goal) ==
    /\ pc = "idle"
    /\ request' = [path |-> "calculate_macro_targets", calories |-> calories,
                   goal |-> goal]
    /\ response' = Returned(calculate_macro_targets(calories, goal))
    /\ pc' = "responded"
    /\ UNCHANGED <<FOODS_DB, rng>>

\* the arguments of test_calculate_bmr_male and test_calculate_bmr_female
\* and the corners of the accepted ranges
BmrAges ==
    {10, 25, 30, 120}

BmrHeights ==
    {Int2R(100), Int2R(165), Int2R(175), Int2R(250)}

BmrWeights ==
    {Int2R(30), Int2R(60), Int2R(70), Int2R(300)}

\* the calories of the two macro tests, zero, the smallest and largest
\* target /tdee computes for an accepted body, the target of the male cut
\* request, and a negative number
MacroCalories ==
    {Int2R(0), Int2R(2000), Int2R(2500), Rat(15744, 100), Rat(204445, 100),
     Rat(98707375, 10000), Int2R(-100)}

InitUnits ==
    /\ FOODS_DB = FixtureCatalog
    /\ rng = FixedRng
    /\ pc = "idle"
    /\ request = NoRequest
    /\ response = NoResponse

NextUnits ==
    \/ \E sex \in SexInputs, age \in BmrAges, height_cm \in BmrHeights,
          weight_kg \in BmrWeights :
            call_calculate_bmr(sex, age, height_cm, weight_kg)
    \/ \E activity_level \in ActivityInputs :
            call_get_activity_factor(activity_level)
    \/ \E goal \in GoalInputs : call_get_calorie_adjustment(goal)
    \/ \E calories \in MacroCalories, goal \in GoalInputs :
            call_calculate_macro_targets(calories, goal)
    \/ \E raw \in SampleTdeeBodies : post_tdee(raw)
    \/ Return

SpecUnits ==
    InitUnits /\ [][NextUnits]_vars

----------------------------------------------------------------------------
(* Specification of POST /mealplan over several catalogs, tag sets and     *)
(* random streams                                                          *)

\* the fallback catalog of a failed load, the fixture, a catalog without a
\* protein source, one with nothing vegan, and a mixed one
PlanCatalogs ==
    {<<>>,
     FixtureCatalog,
     <<BrownRice, Broccoli, OliveOil>>,
     <<ChickenBreast, BeefSteak, GreekYogurt>>,
     <<ChickenBreast, BrownRice, FirmTofu, Broccoli, OliveOil, BeefSteak,
       CoconutMilk, GrahamCrackers>>}

PlanTagSets ==
    {{}, {"veg"}, {"vegan"}, {"halal"}, {"non_veg"}, {"vegan", "budget"}}

\* the targets of the test request and the smallest and largest accepted
PlanTargets ==
    {<<2000, 150, 67, 200>>, <<800, 50, 20, 50>>, <<6000, 400, 200, 800>>}

MealPlanInputs ==
    {PlanBody(Int2R(t[1]), Int2R(t[2]), Int2R(t[3]), Int2R(t[4]), diet_tags, days) :
        t \in PlanTargets, diet_tags \in PlanTagSets, days \in {1, MaxPlanDays}}

\* the targets generate_day_plan hands to generate_meal for the three
\* meals of a day, and a meal with a small fat and carb target
MealTargets ==
    {<<RMul(Int2R(t[1]), Rat(pct, 100)), RMul(Int2R(t[2]), Rat(pct, 100)),
       RMul(Int2R(t[3]), Rat(pct, 100)), RMul(Int2R(t[4]), Rat(pct, 100))>> :
        t \in PlanTargets, pct \in {25, 35, 40}}
    \cup {<<Int2R(500), Int2R(30), Int2R(5), Int2R(12)>>}

\* generate_meal(target_calories, target_protein, target_fat, target_carbs,
\* available_foods, meal_name) called with the catalog as available_foods
call_generate_meal(t, meal_name) ==
    /\ pc = "idle"
    /\ request' = [path |-> "generate_meal", target_calories |-> t[1],
                   target_protein |-> t[2], target_fat |-> t[3],
                   target_carbs |-> t[4], available_foods |-> FOODS_DB,
                   meal_name |-> meal_name]
    /\ \E g \in {generate_meal(t[1], t[2], t[3], t[4], FOODS_DB, meal_name, rng)} :
            /\ response' = Returned(g.meal)
            /\ rng' = g.rng
    /\ pc' = "responded"
    /\ UNCHANGED FOODS_DB

InitMeal ==
    /\ FOODS_DB \in PlanCatalogs
    /\ rng \in {[stream |-> st, pos |-> 1] : st \in RngStreams}
    /\ pc = "idle"
    /\ request = NoRequest
    /\ response = NoResponse

NextMeal ==
    \/ \E t \in MealTargets, meal_name \in {"Breakfast", "Lunch", "Dinner"} :
            call_generate_meal(t, meal_name)
    \/ Return

SpecMeal ==
    InitMeal /\ [][NextMeal]_vars

InitPlan ==
    /\ FOODS_DB \in PlanCatalogs
    /\ rng \in {[stream |-> st, pos |-> 1] : st \in RngStreams}
    /\ pc = "idle"
    /\ request = NoRequest
    /\ response = NoResponse

NextPlan ==
    \/ \E raw \in MealPlanInputs : post_mealplan(raw)
    \/ Return

SpecPlan ==
    InitPlan /\ [][NextPlan]_vars

----------------------------------------------------------------------------
(* Specification of the service: every operation, on several catalogs      *)

\* the fallback catalog of a failed load, the fixture and a catalog
\* without a protein source
ServiceCatalogs ==
    {<<>>, FixtureCatalog, <<BrownRice, Broccoli, OliveOil>>}

ServiceTagSets ==
    {{}, {"vegan"}, {"halal"}, {"veg", "budget"}}

ServiceTdeeInputs ==
    SampleTdeeBodies

\* the request of the tests, over the tag sets
ServicePlanInputs ==
    {PlanBody(Int2R(2000), Int2R(150), Int2R(67), Int2R(200), diet_tags, days) :
        diet_tags \in ServiceTagSets, days \in {1, MaxPlanDays}}

\* request objects whose targets were set without validation: each target
\* is the one of the tests or 0
UnvalidatedRequests ==
    {PlanBody(Int2R(calories), Int2R(protein_g), Int2R(fat_g), Int2R(carbs_g),
              diet_tags, 1) :
        calories \in {0, 2000}, protein_g \in {0, 150}, fat_g \in {0, 67},
        carbs_g \in {0, 200}, diet_tags \in {{}, {"vegan"}}}

Init ==
    /\ FOODS_DB \in ServiceCatalogs
    /\ rng \in {[stream |-> st, pos |-> 1] : st \in RngStreams}
    /\ pc = "idle"
    /\ request = NoRequest
    /\ response = NoResponse

Next ==
    \/ \E raw \in ServiceTdeeInputs : post_tdee(raw)
    \/ \E raw \in ServicePlanInputs : post_mealplan(raw)
    \/ \E req \in UnvalidatedRequests : call_generate_meal_plan(req)
    \/ \E diet_tags \in ServiceTagSets : call_filter_foods(diet_tags)
    \/ get_research_food_database
    \/ Return

Spec ==
    Init /\ [][Next]_vars

----------------------------------------------------------------------------
(* Specification of several POST /mealplan requests in progress at once.   *)
(* The handler is a coroutine without an await, so the event loop runs it  *)
(* from start to end; requests interleave between arrival, handler and     *)
(* the sending of the response. pc, request and response hold one value    *)
(* per client; the random source and the catalog are the module's.         *)

Clients ==
    1..MaxClients

\* the stream the random source hands out: 0, 1, 2, 0, ...
SeededRng ==
    [stream |-> [i \in 1..RngLen |-> (i - 1) % 3], pos |-> 1]

\* the request of the tests for one day with no tags, veg, vegan and
\* halal, and a body that fails validation
ConcurrentInputs ==
    {PlanBody(Int2R(2000), Int2R(150), Int2R(67), Int2R(200), diet_tags, 1) :
        diet_tags \in {{}, {"veg"}, {"vegan"}, {"halal"}}}
    \cup {PlanBody(Int2R(2000), Int2R(150), Int2R(67), Int2R(200), {}, 0)}

\* a POST /mealplan of client c arrives: FastAPI validates the body and
\* answers 422 itself or schedules the handler
receive_mealplan(c, raw) ==
    /\ pc[c] = "idle"
    /\ request' = [request EXCEPT ![c] = [path |-> "/mealplan", body |-> raw]]
    /\ IF MealPlanRequest_errors(raw) # <<>>
       THEN /\ response' = [response EXCEPT
                                ![c] = RequestValidationError(MealPlanRequest_errors(raw))]
            /\ pc' = [pc EXCEPT ![c] = "responded"]
       ELSE /\ response' = response
            /\ pc' = [pc EXCEPT ![c] = "received"]
    /\ UNCHANGED <<FOODS_DB, rng>>

\* the outcome g of client c's handler, which started in random state
\* started, becomes c's response
respond_client(c, started, g) ==
    /\ response' = [response EXCEPT ![c] = g.result]
    /\ rng' = g.rng
    /\ request' = [request EXCEPT
                        ![c] = [path |-> "/mealplan", body |-> request[c].body,
                                random_state |-> started]]

\* the event loop runs generate_meal_plan for client c
handle_mealplan(c) ==
    /\ pc[c] = "received"
    /\ \E g \in {generate_meal_plan(MealPlanRequest(request[c].body), rng)} :
            respond_client(c, rng, g)
    /\ pc' = [pc EXCEPT ![c] = "responded"]
    /\ FOODS_DB' = foods_after_filter(FOODS_DB,
                                      MealPlanRequest(request[c].body).diet_tags)

\* the response of client c is sent
send_response(c) ==
    /\ pc[c] = "responded"
    /\ pc' = [pc EXCEPT ![c] = "idle"]
    /\ request' = [request EXCEPT ![c] = NoRequest]
    /\ response' = [response EXCEPT ![c] = NoResponse]
    /\ UNCHANGED <<FOODS_DB, rng>>

InitConcurrent ==
    /\ FOODS_DB = FixtureCatalog
    /\ rng = SeededRng
    /\ pc = [c \in Clients |-> "idle"]
    /\ request = [c \in Clients |-> NoRequest]
    /\ response = [c \in Clients |-> NoResponse]

NextConcurrent ==
    \/ \E c \in Clients, raw \in ConcurrentInputs : receive_mealplan(c, raw)
    \/ \E c \in Clients : handle_mealplan(c)
    \/ \E c \in Clients : send_response(c)

SpecConcurrent ==
    InitConcurrent /\ [][NextConcurrent]_vars

----------------------------------------------------------------------------
(* Properties of filter_foods                                              *)

\* a filter_foods call has returned
Filtered ==
    pc = "responded" /\ request.path = "filter_foods"

HasTag(food, tag) ==
    "tags" \in DOMAIN food /\ tag \in food.tags

NameHas(food, kws) ==
    \E kw \in kws : contains(lower(food.name), kw)

\* C3: the diet-type axis is applied by precedence: vegan requested =>
\* every returned item is tagged vegan; else veg without non_veg => every
\* returned item is tagged veg or vegan; else non_veg without veg => every
\* returned item is tagged non_veg; veg and non_veg without vegan => no
\* item that passes the other rules is missing from the result.
C3_DietTypePrecedence ==
    Filtered =>
        LET tags == request.diet_tags
            result == Range(response.value)
        IN  /\ "vegan" \in tags => \A f \in result : HasTag(f, "vegan")
            /\ ("vegan" \notin tags /\ "veg" \in tags /\ "non_veg" \notin tags)
                    => \A f \in result : HasTag(f, "veg") \/ HasTag(f, "vegan")
            /\ ("vegan" \notin tags /\ "non_veg" \in tags /\ "veg" \notin tags)
                    => \A f \in result : HasTag(f, "non_veg")
            /\ ("vegan" \notin tags /\ "veg" \in tags /\ "non_veg" \in tags)
                    => \A f \in Range(FOODS_DB) :
                            ( /\ passes_lactose_free(f, tags)
                              /\ passes_halal(f, tags)
                              /\ passes_budget(f, tags) ) => f \in result

\* vegan and veg requested together on a catalog with a veg-only item:
\* the veg-only item is dropped and a vegan one is returned
W_C3 ==
    /\ Filtered
    /\ {"vegan", "veg", "non_veg"} \subseteq request.diet_tags
    /\ \E f \in Range(FOODS_DB) : HasTag(f, "veg") /\ ~HasTag(f, "vegan")
    /\ Len(response.value) > 0

\* C4: halal requested => no returned name contains pork, bacon or ham,
\* every returned name containing beef, chicken, turkey or lamb is tagged
\* halal, and an item with none of these keywords in its name is never
\* dropped by the halal rule.
C4_Halal ==
    (Filtered /\ "halal" \in request.diet_tags) =>
        LET tags == request.diet_tags
            result == Range(response.value)
        IN  /\ \A f \in result : ~NameHas(f, {KwPork, KwBacon, KwHam})
            /\ \A f \in result :
                    NameHas(f, {KwBeef, KwChicken, KwTurkey, KwLamb})
                        => HasTag(f, "halal")
            /\ \A f \in Range(FOODS_DB) :
                    ( /\ ~NameHas(f, {KwPork, KwBacon, KwHam})
                      /\ ~NameHas(f, {KwBeef, KwChicken, KwTurkey, KwLamb})
                      /\ passes_diet_type(f, tags)
                      /\ passes_lactose_free(f, tags)
                      /\ passes_budget(f, tags) ) => f \in result

\* halal requested on a catalog holding a halal-tagged item named
\* "Turkey Ham" and an untagged item without keywords: the first is
\* dropped, the second returned
W_C4 ==
    /\ Filtered
    /\ "halal" \in request.diet_tags
    /\ \E f \in Range(FOODS_DB) :
            HasTag(f, "halal") /\ NameHas(f, {KwHam})
                /\ f \notin Range(response.value)
    /\ \E f \in Range(response.value) : ~HasTag(f, "halal")

\* C5: budget requested => every returned item has cost_level low or
\* medium; high-cost items and items without cost_level are dropped.
C5_Budget ==
    (Filtered /\ "budget" \in request.diet_tags) =>
        \A f \in Range(response.value) :
            "cost_level" \in DOMAIN f /\ f.cost_level \in {"low", "medium"}

\* budget requested on a catalog holding an item without cost_level and
\* a low-cost item that is returned
W_C5 ==
    /\ Filtered
    /\ "budget" \in request.diet_tags
    /\ \E f \in Range(FOODS_DB) : "cost_level" \notin DOMAIN f
    /\ Len(response.value) > 0

C21_FilterIdempotent ==
    Filtered =>
        filter_list(response.value, request.diet_tags) = response.value

\* a call with tags that dropped one item of the catalog and returned
\* another, which the second filtering has to keep
W_C21 ==
    /\ Filtered
    /\ request.diet_tags # {}
    /\ Len(response.value) > 0
    /\ Len(response.value) < Len(FOODS_DB)

\* C22: the items returned for a tag set holding vegan and otherwise only
\* tags among halal, lactose_free and budget are all among the items
\* returned when vegan is replaced by veg in that tag set.
C22_VeganWithinVeg ==
    ( /\ Filtered
      /\ "vegan" \in request.diet_tags
      /\ request.diet_tags \ {"vegan"} \subseteq {"halal", "lactose_free", "budget"} )
        => Range(response.value) \subseteq
            Range(filter_list(FOODS_DB,
                    (request.diet_tags \ {"vegan"}) \cup {"veg"}))

\* a vegan call that returned an item tagged vegan and not veg, on a
\* catalog of which the veg call with the same other tags returns more
W_C22 ==
    /\ Filtered
    /\ "vegan" \in request.diet_tags
    /\ request.diet_tags \ {"vegan"} \subseteq {"halal", "lactose_free", "budget"}
    /\ \E f \in Range(response.value) : ~HasTag(f, "veg")
    /\ Len(filter_list(FOODS_DB, (request.diet_tags \ {"vegan"}) \cup {"veg"}))
            > Len(response.value)

\* C26: filter_foods called with no diet tags returns the catalog itself:
\* every item, each once, in catalog order.
C26_NoTagsUnfiltered ==
    (Filtered /\ request.diet_tags = {}) => response.value = FOODS_DB

\* a call without tags on a catalog holding items that every single tag
\* would drop
W_C26 ==
    /\ Filtered
    /\ request.diet_tags = {}
    /\ Len(FOODS_DB) = MaxCatalogLen
    /\ \E f \in Range(FOODS_DB) : "tags" \notin DOMAIN f

----------------------------------------------------------------------------
(* Properties of POST /mealplan                                            *)

\* a POST /mealplan has been answered
PlanAnswered ==
    pc = "responded" /\ request.path = "/mealplan"

\* the body passed validation, so the handler ran
PlanHandled ==
    PlanAnswered /\ MealPlanRequest_errors(request.body) = <<>>

\* the food entries of every Meal of every day of a returned Plan
PlanEntries ==
    UNION {Range(meal.foods) :
            meal \in UNION {Range(d.meals) : d \in Range(response.body.days)}}

\* the text fragment kw occurs in an error detail
DetailHas(resp, kw) ==
    /\ "detail" \in DOMAIN resp
    /\ resp.detail.type = "text"
    /\ \E i \in DOMAIN resp.detail.text : resp.detail.text[i] = kw

\* C1: every food entry of a returned Plan names an item of the catalog
\* that passes filter_foods for the request's diet tags, and no item the
\* filter excludes is named by an entry; with "vegan" requested no entry
\* names an item lacking the vegan tag, and with "budget" requested every
\* entry names an item of cost_level low or medium.
C1_EntriesFromFilteredCatalog ==
    (PlanHandled /\ response.status = 200) =>
        LET tags == MealPlanRequest(request.body).diet_tags
            kept == Range(filter_foods(tags))
        IN  /\ \A e \in PlanEntries : \E f \in kept : f.name = e.name
            /\ \A f \in Range(FOODS_DB) \ kept :
                    \A e \in PlanEntries : e.name # f.name
            /\ "vegan" \in tags =>
                    \A e \in PlanEntries : \A f \in Range(FOODS_DB) :
                        f.name = e.name => HasTag(f, "vegan")
            /\ "budget" \in tags =>
                    \A e \in PlanEntries : \A f \in Range(FOODS_DB) :
                        f.name = e.name =>
                            /\ "cost_level" \in DOMAIN f
                            /\ f.cost_level \in {"low", "medium"}

\* a vegan plan over a catalog that holds the chicken item tagged only
\* halal: the plan has entries, none of them the chicken
W_C1 ==
    /\ PlanHandled
    /\ response.status = 200
    /\ "vegan" \in request.body.diet_tags
    /\ ChickenBreast \in Range(FOODS_DB)
    /\ PlanEntries # {}

\* C2: when filter_foods leaves no item for the requested tags, the
\* request ends in an error whose detail reports that no foods are
\* available for the specified dietary restrictions, no Plan is returned,
\* and the random source is in the state it was in before the request.
C2_EmptyFilterIsAnError ==
    [][ ( /\ pc = "idle"
          /\ pc' = "responded"
          /\ request'.path = "/mealplan"
          /\ MealPlanRequest_errors(request'.body) = <<>>
          /\ filter_foods(MealPlanRequest(request'.body).diet_tags) = <<>> )
        => ( /\ response'.kind = "http"
             /\ response'.status >= 400
             /\ "body" \notin DOMAIN response'
             /\ DetailHas(response',
                    "No foods available for the specified dietary restrictions")
             /\ rng' = rng ) ]_vars

\* vegan requested on a non-empty catalog with nothing vegan in it: the
\* request is answered with an error
W_C2 ==
    /\ PlanHandled
    /\ FOODS_DB # <<>>
    /\ filter_foods(MealPlanRequest(request.body).diet_tags) = <<>>
    /\ response.status >= 400
    /\ "body" \notin DOMAIN response

----------------------------------------------------------------------------
(* Properties of POST /tdee                                                *)

\* a POST /tdee has been answered
TdeeAnswered ==
    pc = "responded" /\ request.path = "/tdee"

Sexes ==
    {S_male, S_female}

ActivityLevels ==
    {S_sedentary, S_light, S_moderate, S_active, S_very_active}

Goals ==
    {S_cut, S_maintain, S_bulk}

\* the response carries no result
NoResult(resp) ==
    "body" \notin DOMAIN resp

\* the response is the validation failure, with an error for the field loc
RejectedFor(resp, loc) ==
    /\ resp.kind = "http"
    /\ resp.status = 422
    /\ NoResult(resp)
    /\ resp.detail.type = "errors"
    /\ \E i \in DOMAIN resp.detail.errors : resp.detail.errors[i].loc = loc

\* C7: for every accepted body profile the response has target_calories
\* below tdee exactly when the goal is cut, above tdee exactly when the
\* goal is bulk, and equal to tdee exactly when the goal is maintain.
C7_TargetFollowsGoal ==
    (TdeeAnswered /\ response.status = 200) =>
        LET goal == TDEERequest(request.body).goal
            target == response.body.target_calories
            tdee == response.body.tdee
        IN  /\ RLt(target, tdee) <=> goal = S_cut
            /\ RLt(tdee, target) <=> goal = S_bulk
            /\ target = tdee <=> goal = S_maintain

\* a cut request that was answered with targets below the expenditure
W_C7 ==
    /\ TdeeAnswered
    /\ response.status = 200
    /\ request.body.goal = S_cut
    /\ RLt(response.body.target_calories, response.body.tdee)

C9_AsStated ==
    TdeeAnswered =>
        LET raw == request.body
            only(errs) == TDEERequest_errors(raw) = errs /\ errs # <<>>
        IN  /\ only(validate_sex(raw.sex)) =>
                    /\ response.status = 400
                    /\ DetailHas(response, "Sex must be 'male' or 'female'")
            /\ only(validate_activity(raw.activity_level)) =>
                    /\ response.status = 400
                    /\ DetailHas(response, "Invalid activity level")
            /\ only(validate_goal(raw.goal)) =>
                    /\ response.status = 400
                    /\ DetailHas(response, "Goal must be 'cut', 'maintain', or 'bulk'")

\* the request of test_invalid_sex is answered with the validation failure
W_C9 ==
    /\ TdeeAnswered
    /\ request.body = TdeeBody(S_invalid, 30, Int2R(175), Int2R(70),
                               S_moderate, S_cut)
    /\ response.status = 422

----------------------------------------------------------------------------
(* Properties of the range constraints of both request models              *)

InRange(value, lo, hi) ==
    RLe(Int2R(lo), value) /\ RLe(value, Int2R(hi))

\* the response is not a validation failure naming one of the fields locs
NotRejectedFor(resp, locs) ==
    resp.status = 422 =>
        \A i \in DOMAIN resp.detail.errors : resp.detail.errors[i].loc \notin locs

\* C10: a /tdee body with age outside 10..120, height_cm outside 100..250
\* or weight_kg outside 30..300, and a /mealplan body with calories outside
\* 800..6000, protein_g outside 50..400, fat_g outside 20..200, carbs_g
\* outside 50..800 or days outside 1..14, is answered with status 422 and
\* an error for that field, with no targets and no plan; a body whose
\* fields all lie on or inside the bounds gets no error for any of them.
C10_RangeValidation ==
    /\ TdeeAnswered =>
        LET raw == request.body
            age_ok == InRange(Int2R(raw.age), 10, 120)
            height_ok == InRange(raw.height_cm, 100, 250)
            weight_ok == InRange(raw.weight_kg, 30, 300)
        IN  /\ ~age_ok => RejectedFor(response, "age")
            /\ ~height_ok => RejectedFor(response, "height_cm")
            /\ ~weight_ok => RejectedFor(response, "weight_kg")
            /\ (age_ok /\ height_ok /\ weight_ok) =>
                    NotRejectedFor(response, {"age", "height_cm", "weight_kg"})
    /\ PlanAnswered =>
        LET raw == request.body
            calories_ok == InRange(raw.calories, 800, 6000)
            protein_ok == InRange(raw.protein_g, 50, 400)
            fat_ok == InRange(raw.fat_g, 20, 200)
            carbs_ok == InRange(raw.carbs_g, 50, 800)
            days_ok == "days" \in DOMAIN raw => InRange(Int2R(raw.days), 1, 14)
        IN  /\ ~calories_ok => RejectedFor(response, "calories")
            /\ ~protein_ok => RejectedFor(response, "protein_g")
            /\ ~fat_ok => RejectedFor(response, "fat_g")
            /\ ~carbs_ok => RejectedFor(response, "carbs_g")
            /\ ~days_ok => RejectedFor(response, "days")
            /\ (calories_ok /\ protein_ok /\ fat_ok /\ carbs_ok /\ days_ok) =>
                    response.status # 422

\* a plan request with days = 15 and every other field on its lower bound
\* was rejected for days alone
W_C10 ==
    /\ PlanAnswered
    /\ request.body = PlanBody(Int2R(800), Int2R(50), Int2R(20), Int2R(50), {}, 15)
    /\ RejectedFor(response, "days")
    /\ Len(response.detail.errors) = 1

----------------------------------------------------------------------------
(* Properties of the adherence score                                       *)

\* a Plan has been returned
PlanReturned ==
    PlanHandled /\ response.status = 200

\* 1 - |actual - target * days| / (target * days), from the response's totals
NutrientAdherence(actual, target, days) ==
    RSub(Int2R(1),
         RDiv(RAbs(RSub(actual, RMul(target, Int2R(days)))),
              RMul(target, Int2R(days))))

\* the mean of the four per-nutrient adherences of the returned Plan
MeanAdherence ==
    LET req == MealPlanRequest(request.body)
        t == response.body.plan_totals
    IN  RDiv(RAdd(RAdd(NutrientAdherence(t.calories, req.calories, req.days),
                       NutrientAdherence(t.protein, req.protein_g, req.days)),
                  RAdd(NutrientAdherence(t.fat, req.fat_g, req.days),
                       NutrientAdherence(t.carbs, req.carbs_g, req.days))),
             Int2R(4))

\* some nutrient of the returned Plan overshoots its target by more than
\* the target itself, so its own adherence is negative
SomeNutrientNegative ==
    LET req == MealPlanRequest(request.body)
        t == response.body.plan_totals
    IN  \/ RLt(NutrientAdherence(t.calories, req.calories, req.days), Int2R(0))
        \/ RLt(NutrientAdherence(t.protein, req.protein_g, req.days), Int2R(0))
        \/ RLt(NutrientAdherence(t.fat, req.fat_g, req.days), Int2R(0))
        \/ RLt(NutrientAdherence(t.carbs, req.carbs_g, req.days), Int2R(0))

\* C11: the adherence_score of a returned Plan is the mean over calories,
\* protein, fat and carbs of 1 - |actual_total - target_total| /
\* target_total, clamped once to [0, 1] and rounded to 3 decimals; it lies
\* in [0, 1].
C11_AdherenceScore ==
    PlanReturned =>
        /\ response.body.adherence_score
                = round(RMax(Int2R(0), RMin(Int2R(1), MeanAdherence)), 3)
        /\ RLe(Int2R(0), response.body.adherence_score)
        /\ RLe(response.body.adherence_score, Int2R(1))

\* a Plan in which one nutrient's own adherence is negative while the mean
\* is positive: clamping per nutrient would give another score
W_C11 ==
    /\ PlanReturned
    /\ SomeNutrientNegative
    /\ RLt(Int2R(0), MeanAdherence)

----------------------------------------------------------------------------
(* Properties of a zero target                                             *)

\* generate_meal_plan was called with a request object and has answered
DirectCallAnswered ==
    pc = "responded" /\ request.path = "generate_meal_plan"

\* one of the four targets of the request object is 0
SomeTargetZero(req) ==
    \/ req.calories = Int2R(0) \/ req.protein_g = Int2R(0)
    \/ req.fat_g = Int2R(0) \/ req.carbs_g = Int2R(0)

\* C12 as stated: when one of the four targets reaching the adherence
\* computation is 0, the computation does not divide by zero.
C12_AsStated ==
    (DirectCallAnswered /\ SomeTargetZero(request.body)) =>
        ~DetailHas(response, "float division by zero")

\* a request object with calories = 0 on a non-empty catalog ended in the
\* error of the division by zero
W_C12 ==
    /\ DirectCallAnswered
    /\ request.body.calories = Int2R(0)
    /\ filter_foods(request.body.diet_tags) # <<>>
    /\ response.status = 500
    /\ DetailHas(response, "float division by zero")

----------------------------------------------------------------------------
(* Properties of the totals of a Plan                                      *)

\* the Meals of every day of the returned Plan
PlanMeals ==
    UNION {Range(d.meals) : d \in Range(response.body.days)}

\* the sum of the values entries[1..n][key] of a list of food entries
RECURSIVE SumEntries(_, _, _)
SumEntries(entries, key, n) ==
    IF n = 0 THEN Int2R(0)
    ELSE RAdd(SumEntries(entries, key, n - 1), entries[n][key])

Nutrients ==
    {"calories", "protein", "fat", "carbs"}

\* C13 as stated: for each nutrient the totals of every Meal equal the sum
\* of the one-decimal values of the Meal's food entries.
C13_AsStated ==
    PlanReturned =>
        \A meal \in PlanMeals : \A key \in Nutrients :
            meal.totals[key] = SumEntries(meal.foods, key, Len(meal.foods))

\* a returned Plan with a Meal whose calories total differs from the sum of
\* the calories of its entries
W_C13 ==
    /\ PlanReturned
    /\ \E meal \in PlanMeals :
            meal.totals.calories
                # SumEntries(meal.foods, "calories", Len(meal.foods))

\* the sum of days[1..n].daily_totals[key]
RECURSIVE SumDays(_, _, _)
SumDays(days, key, n) ==
    IF n = 0 THEN Int2R(0)
    ELSE RAdd(SumDays(days, key, n - 1), days[n].daily_totals[key])

\* per nutrient, daily_totals is the sum of the totals of the day's Meals
DailyTotalsAreMealSums ==
    \A d \in Range(response.body.days) : \A key \in Nutrients :
        d.daily_totals[key]
            = RAdd(RAdd(d.meals[1].totals[key], d.meals[2].totals[key]),
                   d.meals[3].totals[key])

\* C14 as stated: daily_totals is the sum of the three Meal totals,
\* plan_totals the sum of all daily_totals, and avg_daily_calories is the
\* plan's total calories divided by the number of days.
C14_AsStated ==
    PlanReturned =>
        LET body == response.body
            n == Len(body.days)
        IN  /\ DailyTotalsAreMealSums
            /\ \A key \in Nutrients :
                    body.plan_totals[key] = SumDays(body.days, key, n)
            /\ body.plan_totals.avg_daily_calories
                    = RDiv(body.plan_totals.calories, Int2R(n))

\* C14: daily_totals is, per nutrient, the sum of the three Meal totals;
\* plan_totals is the sum of all daily_totals rounded to one decimal; and
\* avg_daily_calories is the sum of the daily calories divided by the
\* number of days, rounded to one decimal.
C14_Totals ==
    PlanReturned =>
        LET body == response.body
            n == Len(body.days)
        IN  /\ DailyTotalsAreMealSums
            /\ \A key \in Nutrients :
                    body.plan_totals[key] = round(SumDays(body.days, key, n), 1)
            /\ body.plan_totals.avg_daily_calories
                    = round(RDiv(SumDays(body.days, "calories", n), Int2R(n)), 1)

\* a Plan of several days whose daily calories differ from the day's
\* target and whose average is not the exact quotient
W_C14 ==
    /\ PlanReturned
    /\ Len(response.body.days) > 1
    /\ \A d \in Range(response.body.days) :
            d.daily_totals.calories # MealPlanRequest(request.body).calories
    /\ response.body.plan_totals.avg_daily_calories
            # RDiv(response.body.plan_totals.calories,
                   Int2R(Len(response.body.days)))

----------------------------------------------------------------------------
(* Properties of the structure of a Plan                                   *)

\* C15: a Plan returned for a request with days = n holds exactly n
\* DayPlans with day indices 1, 2, ..., n in that order, and every DayPlan
\* holds exactly three Meals named Breakfast, Lunch and Dinner in that
\* order.
C15_PlanStructure ==
    PlanReturned =>
        LET days == response.body.days
        IN  /\ Len(days) = MealPlanRequest(request.body).days
            /\ \A i \in DOMAIN days :
                    /\ days[i].day = i
                    /\ Len(days[i].meals) = 3
                    /\ days[i].meals[1].name = "Breakfast"
                    /\ days[i].meals[2].name = "Lunch"
                    /\ days[i].meals[3].name = "Dinner"

\* a Plan was returned for a request with days = 14
W_C15 ==
    /\ PlanReturned
    /\ "days" \in DOMAIN request.body
    /\ request.body.days = 14
    /\ Len(response.body.days) = 14

\* C16 as stated: every Meal of every day of a returned Plan holds at least
\* one food entry.
C16_AsStated ==
    PlanReturned => \A meal \in PlanMeals : Len(meal.foods) >= 1

\* a Plan returned from a non-empty filtered catalog, all of whose Meals
\* are empty
W_C16 ==
    /\ PlanReturned
    /\ filter_foods(MealPlanRequest(request.body).diet_tags) # <<>>
    /\ \A meal \in PlanMeals : meal.foods = <<>>

----------------------------------------------------------------------------
(* Properties of empty food categories                                     *)

\* the foods the filter leaves for the answered request
Available ==
    Range(filter_foods(MealPlanRequest(request.body).diet_tags))

HasProteinSource ==
    \E f \in Available : RLt(Int2R(10), f.per_100g.protein)

HasCarbSource ==
    \E f \in Available : RLt(Int2R(15), f.per_100g.carbs)

HasFatSource ==
    \E f \in Available : RLt(Int2R(8), f.per_100g.fat)

HasVegetable ==
    \E f \in Available :
        RLt(f.per_100g.carbs, Int2R(10)) /\ RLt(f.per_100g.protein, Int2R(5))

\* how many of the four categories have a food
NonEmptyCategories ==
    (IF HasProteinSource THEN 1 ELSE 0) + (IF HasCarbSource THEN 1 ELSE 0)
        + (IF HasFatSource THEN 1 ELSE 0) + (IF HasVegetable THEN 1 ELSE 0)

\* C17: a validated request whose filtered catalog is non-empty is
\* answered with a Plan and never with an error, whichever of the protein,
\* carb, fat and vegetable categories are empty; a Meal then has no more
\* entries than there are non-empty categories.
C17_EmptyCategoryIsNoError ==
    (PlanHandled /\ Available # {}) =>
        /\ response.status = 200
        /\ "body" \in DOMAIN response
        /\ \A meal \in PlanMeals : Len(meal.foods) <= NonEmptyCategories

\* a Plan returned from a filtered catalog without a protein source
W_C17 ==
    /\ PlanReturned
    /\ Available # {}
    /\ ~HasProteinSource
    /\ \E meal \in PlanMeals : meal.foods # <<>>

----------------------------------------------------------------------------
(* Properties of several requests                                          *)

\* the handler has run for client c
Handled(c) ==
    pc[c] = "responded" /\ "random_state" \in DOMAIN request[c]

----------------------------------------------------------------------------
(* Properties of the catalog                                               *)

\* C19: no POST /tdee, POST /mealplan, filter_foods call or read of the
\* food database changes the loaded catalog: after every step FOODS_DB
\* holds the same items in the same order as before it.
C19_CatalogUnchanged ==
    [][FOODS_DB' = FOODS_DB]_vars

\* filter_foods was called with no tags on a non-empty catalog and handed
\* back the catalog itself
W_C19 ==
    /\ Filtered
    /\ request.diet_tags = {}
    /\ FOODS_DB # <<>>
    /\ response.value = FOODS_DB

\* the Meals of every day of a Plan
MealsOf(plan) ==
    UNION {Range(d.meals) : d \in Range(plan.days)}

\* a Meal's totals are those of its own entries: per nutrient they differ
\* from the sum of the entries' one-decimal values by rounding only
MealTotalsFromOwnEntries(meal) ==
    \A key \in Nutrients :
        RLe(RAbs(RSub(meal.totals[key],
                      SumEntries(meal.foods, key, Len(meal.foods)))),
            Rat(3, 10))

\* the mean adherence of a Plan's totals to the targets of the request req
MeanAdherenceTo(plan, req) ==
    LET t == plan.plan_totals
    IN  RDiv(RAdd(RAdd(NutrientAdherence(t.calories, req.calories, req.days),
                       NutrientAdherence(t.protein, req.protein_g, req.days)),
                  RAdd(NutrientAdherence(t.fat, req.fat_g, req.days),
                       NutrientAdherence(t.carbs, req.carbs_g, req.days))),
             Int2R(4))

\* the Plan is made of the request's own selections, all of them among the
\* item names own_names, and of the request's own targets
PlanIsOwnFrom(plan, req, own_names) ==
    /\ Len(plan.days) = req.days
    /\ \A meal \in MealsOf(plan) :
            /\ Len(meal.foods) <= 4
            /\ \A i \in DOMAIN meal.foods : meal.foods[i].name \in own_names
            /\ MealTotalsFromOwnEntries(meal)
    /\ \A d \in Range(plan.days) : \A key \in Nutrients :
            d.daily_totals[key]
                = RAdd(RAdd(d.meals[1].totals[key], d.meals[2].totals[key]),
                       d.meals[3].totals[key])
    /\ \A key \in Nutrients :
            plan.plan_totals[key] = round(SumDays(plan.days, key, Len(plan.days)), 1)
    /\ plan.adherence_score
            = round(RMax(Int2R(0), RMin(Int2R(1), MeanAdherenceTo(plan, req))), 3)

\* the Plan is made of the request's own selections and targets
PlanIsOwn(plan, req) ==
    PlanIsOwnFrom(plan, req, {f.name : f \in Range(filter_foods(req.diet_tags))})

\* C20: with several POST /mealplan requests in progress at once, in every
\* order of arrival, handler run and sending, every returned Plan is made
\* of its own request's selections and targets: it has the request's day
\* count, each Meal holds at most the four entries one generate_meal call
\* selects, all of them from the catalog filtered by the request's own diet
\* tags, the totals are those of the Plan's own entries, and the
\* adherence_score is the one of its own totals against its own targets.
C20_OwnWorkingState ==
    \A c \in Clients :
        (Handled(c) /\ response[c].status = 200) =>
            PlanIsOwn(response[c].body, MealPlanRequest(request[c].body))

\* a vegan Plan and a Plan with chicken in it are waiting to be sent at the
\* same time
W_C20 ==
    /\ \A c \in Clients : Handled(c) /\ response[c].status = 200
    /\ \E c \in Clients : "vegan" \in request[c].body.diet_tags
    /\ \E c \in Clients : \E meal \in MealsOf(response[c].body) :
            \E i \in DOMAIN meal.foods : meal.foods[i].name = ChickenBreast.name

----------------------------------------------------------------------------
(* Properties of the calculation functions                                 *)

\* a direct call of the function fn has returned
Called(fn) ==
    pc = "responded" /\ request.path = fn

MifflinStJeor(age, height_cm, weight_kg, offset) ==
    RAdd(RSub(RAdd(RMul(Int2R(10), weight_kg), RMul(Rat(625, 100), height_cm)),
              Int2R(5 * age)),
         Int2R(offset))

\* the lookup tables of get_activity_factor and get_calorie_adjustment, in
\* thousandths and in hundredths
FactorTable ==
    {<<S_sedentary, 1200>>, <<S_light, 1375>>, <<S_moderate, 1550>>,
     <<S_active, 1725>>, <<S_very_active, 1900>>}

AdjustmentTable ==
    {<<S_cut, -20>>, <<S_maintain, 0>>, <<S_bulk, 15>>}

\* the body is the male cut profile of the first scenario
IsScenario1(b) ==
    /\ lower(b.sex) = S_male /\ b.age = 30
    /\ b.height_cm = Int2R(175) /\ b.weight_kg = Int2R(70)

\* C24: calculate_bmr returns 10*weight + 6.25*height - 5*age + 5 for male
\* and ... - 161 for female; the factor and the adjustment are those of the
\* lookup tables; the tdee of a response is bmr times the factor and its
\* target_calories is tdee*(1 + adjustment), each rounded to one decimal;
\* for (male, 30, 175, 70, moderate, cut) the values before rounding are
\* bmr 1648.75, factor 1.55, tdee 2555.5625 and target 2044.45.
C24_BmrTdeeTarget ==
    /\ Called("calculate_bmr") =>
            /\ lower(request.sex) = S_male
                    => response.value = MifflinStJeor(request.age,
                            request.height_cm, request.weight_kg, 5)
            /\ lower(request.sex) = S_female
                    => response.value = MifflinStJeor(request.age,
                            request.height_cm, request.weight_kg, -161)
            /\ IsScenario1(request) => response.value = Rat(164875, 100)
    /\ Called("get_activity_factor") =>
            \A e \in FactorTable :
                lower(request.activity_level) = e[1]
                    => response.value = Rat(e[2], 1000)
    /\ Called("get_calorie_adjustment") =>
            \A e \in AdjustmentTable :
                lower(request.goal) = e[1] => response.value = Rat(e[2], 100)
    /\ (TdeeAnswered /\ response.status = 200) =>
            LET b == TDEERequest(request.body)
                bmr == MifflinStJeor(b.age, b.height_cm, b.weight_kg,
                            IF b.sex = S_male THEN 5 ELSE -161)
                factor == CHOOSE e \in FactorTable : e[1] = b.activity_level
                adj == CHOOSE e \in AdjustmentTable : e[1] = b.goal
                tdee == RMul(bmr, Rat(factor[2], 1000))
                target == RMul(tdee, Rat(100 + adj[2], 100))
            IN  /\ response.body.bmr = round(bmr, 1)
                /\ response.body.activity_factor = Rat(factor[2], 1000)
                /\ response.body.tdee = round(tdee, 1)
                /\ response.body.target_calories = round(target, 1)
                /\ (IsScenario1(b) /\ b.activity_level = S_moderate
                        /\ b.goal = S_cut)
                        => /\ bmr = Rat(164875, 100)
                           /\ factor[2] = 1550
                           /\ tdee = Rat(25555625, 10000)
                           /\ target = Rat(204445, 100)

\* the male cut profile of the first scenario answered by POST /tdee with
\* the factor 1.55 and the tdee 2555.6
W_C24 ==
    /\ TdeeAnswered
    /\ response.status = 200
    /\ IsScenario1(request.body)
    /\ request.body.activity_level = S_moderate
    /\ request.body.goal = S_cut
    /\ response.body.activity_factor = Rat(155, 100)
    /\ response.body.tdee = Rat(25556, 10)

----------------------------------------------------------------------------
(* Properties of the targets POST /tdee computes                           *)

\* the body is a valid profile: sex, activity level and goal are known
\* words in any case, age, height and weight lie on or inside their bounds
ValidProfile(raw) ==
    /\ lower(raw.sex) \in Sexes
    /\ lower(raw.activity_level) \in ActivityLevels
    /\ lower(raw.goal) \in Goals
    /\ InRange(Int2R(raw.age), 10, 120)
    /\ InRange(raw.height_cm, 100, 250)
    /\ InRange(raw.weight_kg, 30, 300)

\* C25: every valid profile is answered with bmr > 0, tdee > bmr,
\* target_calories > 0 and protein_g, fat_g and carbs_g all > 0.
C25_PositiveTargets ==
    (TdeeAnswered /\ ValidProfile(request.body)) =>
        /\ response.status = 200
        /\ RLt(Int2R(0), response.body.bmr)
        /\ RLt(response.body.bmr, response.body.tdee)
        /\ RLt(Int2R(0), response.body.target_calories)
        /\ RLt(Int2R(0), response.body.macro_targets.protein_g)
        /\ RLt(Int2R(0), response.body.macro_targets.fat_g)
        /\ RLt(Int2R(0), response.body.macro_targets.carbs_g)

\* the profile with the smallest bmr (female, 120 years, 100 cm, 30 kg),
\* sedentary and cutting, answered with bmr 164
W_C25 ==
    /\ TdeeAnswered
    /\ ValidProfile(request.body)
    /\ request.body.age = 120
    /\ lower(request.body.activity_level) = S_sedentary
    /\ lower(request.body.goal) = S_cut
    /\ response.status = 200
    /\ response.body.bmr = Int2R(164)

\* C30 as stated: for every valid profile the targets of the response lie
\* in the ranges of MealPlanRequest (calories 800..6000, protein_g 50..400,
\* fat_g 20..200, carbs_g 50..800), so the MealPlanRequest the complete
\* report builds from them has no validation error.
C30_AsStated ==
    (TdeeAnswered /\ ValidProfile(request.body) /\ response.status = 200) =>
        /\ InRange(response.body.target_calories, 800, 6000)
        /\ InRange(response.body.macro_targets.protein_g, 50, 400)
        /\ InRange(response.body.macro_targets.fat_g, 20, 200)
        /\ InRange(response.body.macro_targets.carbs_g, 50, 800)
        /\ MealPlanRequest_errors(
                report_meal_plan_body(response.body, [days |-> 1])) = <<>>

\* a valid profile answered with target_calories below 800, from which the
\* complete report cannot build a MealPlanRequest
W_C30 ==
    /\ TdeeAnswered
    /\ ValidProfile(request.body)
    /\ response.status = 200
    /\ RLt(response.body.target_calories, Int2R(800))
    /\ MealPlanRequest_errors(
            report_meal_plan_body(response.body, [days |-> 1])) # <<>>

----------------------------------------------------------------------------
(* Properties of generate_meal                                             *)

ProteinSources(foods) ==
    {f \in Range(foods) : RLt(Int2R(10), f.per_100g.protein)}

CarbSources(foods) ==
    {f \in Range(foods) : RLt(Int2R(15), f.per_100g.carbs)}

FatSources(foods) ==
    {f \in Range(foods) : RLt(Int2R(8), f.per_100g.fat)}

Vegetables(foods) ==
    {f \in Range(foods) :
        RLt(f.per_100g.carbs, Int2R(10)) /\ RLt(f.per_100g.protein, Int2R(5))}

\* min(hi, max(lo, x)) on rationals
Clamped(x, lo, hi) ==
    IF RLt(x, Int2R(lo)) THEN Int2R(lo)
    ELSE IF RLt(Int2R(hi), x) THEN Int2R(hi) ELSE x

\* need / per100 * 100
GramsFor(need, per100) ==
    RMul(RDiv(need, per100), Int2R(100))

\* nothing selected yet: no phase, item or amount, running fat and carbs 0
NoneSelected ==
    [ok |-> TRUE, phases |-> <<>>, items |-> <<>>, amounts |-> <<>>,
     fat |-> Int2R(0), carbs |-> Int2R(0)]

\* the phase takes the next entry: it has to exist and to name an item of
\* the phase's category cat; amount is the grams the phase gives that item
\* (for the vegetable phase, whose amount is drawn at random, the grams the
\* entry shows)
Selects(t, entries, phase, cat, need, lo, hi) ==
    LET k == Len(t.phases) + 1
        found == k <= Len(entries) /\ \E f \in cat : f.name = entries[k].name
        item == CHOOSE f \in cat : f.name = entries[k].name
        per100 == IF phase = "protein" THEN item.per_100g.protein
                  ELSE IF phase = "carb" THEN item.per_100g.carbs
                  ELSE item.per_100g.fat
        amount == IF phase = "vegetable" THEN entries[k].amount_g
                  ELSE Clamped(GramsFor(need, per100), lo, hi)
    IN  IF ~found THEN [t EXCEPT !.ok = FALSE]
        ELSE [ok |-> t.ok,
              phases |-> Append(t.phases, phase),
              items |-> Append(t.items, item),
              amounts |-> Append(t.amounts, amount),
              fat |-> RAdd(t.fat, RMul(item.per_100g.fat, RDiv(amount, Int2R(100)))),
              carbs |-> RAdd(t.carbs, RMul(item.per_100g.carbs, RDiv(amount, Int2R(100))))]

AfterProtein(req, entries) ==
    IF ProteinSources(req.available_foods) # {}
    THEN Selects(NoneSelected, entries, "protein",
                 ProteinSources(req.available_foods),
                 RMul(req.target_protein, Rat(75, 100)), 50, 150)
    ELSE NoneSelected

AfterCarb(req, entries, t) ==
    IF /\ t.ok
       /\ CarbSources(req.available_foods) # {}
       /\ RLt(Int2R(10), RSub(req.target_carbs, t.carbs))
    THEN Selects(t, entries, "carb", CarbSources(req.available_foods),
                 RSub(req.target_carbs, t.carbs), 50, 200)
    ELSE t

AfterFat(req, entries, t) ==
    IF /\ t.ok
       /\ FatSources(req.available_foods) # {}
       /\ RLt(Int2R(5), RSub(req.target_fat, t.fat))
    THEN Selects(t, entries, "fat", FatSources(req.available_foods),
                 RSub(req.target_fat, t.fat), 20, 100)
    ELSE t

AfterVegetable(req, entries, t) ==
    IF /\ t.ok
       /\ Vegetables(req.available_foods) # {}
       /\ Len(t.phases) < 4
    THEN Selects(t, entries, "vegetable", Vegetables(req.available_foods),
                 Int2R(0), 50, 150)
    ELSE t

\* the entries of a Meal read as the selections of the four phases in
\* their order, for the targets and foods of the call req
Phases(req, entries) ==
    AfterVegetable(req, entries,
        AfterFat(req, entries,
            AfterCarb(req, entries, AfterProtein(req, entries))))

\* C27: the entries of a Meal are, in this order, at most one selection of
\* the protein phase (made whenever an item has protein > 10), of the carb
\* phase (made exactly when an item has carbs > 15 and the carb target
\* minus the running carbs is > 10), of the fat phase (exactly when an item
\* has fat > 8 and the remaining fat need is > 5) and of the vegetable
\* phase (exactly when an item has carbs < 10 and protein < 5 and fewer
\* than 4 entries are selected), and nothing else: 0 to 4 entries.
C27_PhaseOrder ==
    Called("generate_meal") =>
        LET entries == response.value.foods
            t == Phases(request, entries)
        IN  /\ t.ok
            /\ Len(entries) = Len(t.phases)
            /\ Len(entries) \in 0..4

\* a Meal from a catalog with a carb source whose carb phase was left out
\* because the protein entry brought the carb need to 10 or less, and
\* whose vegetable phase selected
W_C27 ==
    /\ Called("generate_meal")
    /\ CarbSources(request.available_foods) # {}
    /\ Phases(request, response.value.foods).ok
    /\ Phases(request, response.value.foods).phases = <<"protein", "vegetable">>

\* the four nutrient values of the entry e are the per-100g values of item
\* times amount/100, after Shown
Scaled(e, item, amount, Shown(_)) ==
    /\ e.calories = Shown(RMul(item.per_100g.calories, RDiv(amount, Int2R(100))))
    /\ e.protein = Shown(RMul(item.per_100g.protein, RDiv(amount, Int2R(100))))
    /\ e.fat = Shown(RMul(item.per_100g.fat, RDiv(amount, Int2R(100))))
    /\ e.carbs = Shown(RMul(item.per_100g.carbs, RDiv(amount, Int2R(100))))

Unrounded(x) ==
    x

OneDecimal(x) ==
    round(x, 1)

\* the amount of a vegetable entry is a whole number of grams in 50..150
WholeGrams(amount) ==
    amount[2] = 1 /\ amount[1] \in 50..150

\* C28 as stated: the amount of each entry is the clamped quotient of its
\* phase (a whole number in 50..150 for the vegetable phase) and its
\* nutrient values are the per-100g values times amount/100.
C28_AsStated ==
    Called("generate_meal") =>
        LET entries == response.value.foods
            t == Phases(request, entries)
        IN  t.ok =>
                \A k \in DOMAIN t.phases :
                    /\ entries[k].amount_g = t.amounts[k]
                    /\ t.phases[k] = "vegetable" => WholeGrams(entries[k].amount_g)
                    /\ Scaled(entries[k], t.items[k], t.amounts[k], Unrounded)

\* C28: the amount of the protein entry is 75% of the protein target /
\* protein per 100g * 100 clamped to [50, 150], that of the carb entry the
\* remaining carb need / carbs per 100g * 100 clamped to [50, 200], that of
\* the fat entry the remaining fat need / fat per 100g * 100 clamped to
\* [20, 100], that of the vegetable entry a whole number in [50, 150];
\* the entry shows this amount rounded to one decimal, and its nutrient
\* values are the per-100g values times the unrounded amount/100, rounded
\* to one decimal.
C28_AmountsAndScaling ==
    Called("generate_meal") =>
        LET entries == response.value.foods
            t == Phases(request, entries)
        IN  t.ok =>
                \A k \in DOMAIN t.phases :
                    /\ entries[k].amount_g = round(t.amounts[k], 1)
                    /\ t.phases[k] = "vegetable" => WholeGrams(entries[k].amount_g)
                    /\ Scaled(entries[k], t.items[k], t.amounts[k], OneDecimal)

\* a Meal of four entries whose protein amount is not a one-decimal number
\* and whose carb amount was clamped to 200
W_C28 ==
    /\ Called("generate_meal")
    /\ Phases(request, response.value.foods).ok
    /\ Len(response.value.foods) = 4
    /\ response.value.foods[1].amount_g
            # Phases(request, response.value.foods).amounts[1]
    /\ response.value.foods[2].amount_g = Int2R(200)

----------------------------------------------------------------------------
(* Properties of the error answered for an empty filtered catalog          *)

\* C29 as stated: POST /mealplan answers a request whose filtered catalog
\* is empty with status 400 and the detail "No foods available for the
\* specified dietary restrictions".
C29_AsStated ==
    ( /\ PlanHandled
      /\ filter_foods(MealPlanRequest(request.body).diet_tags) = <<>> )
        => /\ response.status = 400
           /\ response.detail.type = "text"
           /\ response.detail.text =
                <<"No foods available for the specified dietary restrictions">>

\* a request whose filtered catalog is empty, answered with status 500 and
\* the detail "Meal plan generation error: 400: No foods available ..."
W_C29 ==
    /\ PlanHandled
    /\ filter_foods(MealPlanRequest(request.body).diet_tags) = <<>>
    /\ response.status = 500
    /\ response.detail.text =
            <<"Meal plan generation error: ", "400", ": ",
              "No foods available for the specified dietary restrictions">>

====
